---- MODULE Spec2Model ----
(***************************************************************************)
(* toil-rnaseq: the per-sample task graph built by workflow(), the batch   *)
(* fan-out of map_job, the configuration checks of main() and the archive  *)
(* written by consolidate_output, as state machines.                       *)
(*                                                                         *)
(* Python strings that the code takes apart (URLs, output_dir) are         *)
(* sequences of one-character strings; None and '' are the empty sequence  *)
(* (the code only ever tests them for truth).                              *)
(***************************************************************************)
EXTENDS Integers, Sequences, FiniteSets, TLC

VARIABLES
    pc,         \* main(): "start", "aborted" (an exception left main), "started" (toil.start ran)
    mainErr,    \* the exception that left main(): "none", "UserError", "IndexError"
    config,     \* the configuration record (raw before main(), checked after)
    samples,    \* the manifest: a sequence of sample descriptors
    mapStack,   \* map_job nodes spawned and not yet run (each a sequence of items), in tree order
    lastNode,   \* the map_job node that ran last: its inputs and the children it added
    leaves,     \* the items func was spawned for, in tree order
    status,     \* status[s][t]: state of task t of sample s
    store,      \* store[s]: the artifacts (FileStoreIDs) of sample s now in the job store
    rv,         \* rv[s][t]: the return value of task t, <<>> until it has run
    wrote,      \* wrote[s][t]: the artifacts task t wrote to the store
    removed,    \* removed[s][t]: the ids task t asked the store to delete
    output,     \* output[s]: the labels of the dict workflow() hands to consolidate_output
    qcFail,     \* qcFail[s]: the fail_flag returned by BamQC
    delivered,  \* delivered[s]: name and member names of the archive moved to output_dir, or NoArchive
    tarIn,      \* consolidation of arbitrary archives: label -> member names
    tarOut,     \* consolidation of arbitrary archives: the combined member names, after the run
    cfg,        \* cfg[s]: the configuration object workflow() of sample s works on, NoCfg before
    hint,       \* hint[s][t]: the disk and memory requirement task t was created with
    saved,      \* saved[s]: the read-level files (BAM, wiggle) moved to output_dir, and how
    files,      \* classification of file names: the names found in the work directory
    merged,     \* classification of file names: what process_sample made of them
    s3am,       \* one call of _s3am_with_retry: its arguments, command, exit codes so far, outcome
    wrapper     \* the docker wrapper: its arguments and the manifest it wrote

vars == <<pc, mainErr, config, samples, mapStack, lastNode, leaves, status, store, rv,
          wrote, removed, output, qcFail, delivered, tarIn, tarOut, cfg, hint, saved,
          files, merged, s3am, wrapper>>

mapVars == <<mapStack, lastNode, leaves>>
taskVars == <<status, store, rv, wrote, removed, output, qcFail, delivered, cfg, hint, saved>>
tarVars == <<tarIn, tarOut>>
namesVars == <<files, merged>>

sideVars == <<s3am, wrapper>>

(***************************************************************************)
(* Strings                                                                 *)
(***************************************************************************)
NoneStr == <<>>

Truthy(x) == x /= NoneStr

startswith(s, p) == Len(s) >= Len(p) /\ SubSeq(s, 1, Len(p)) = p

endswith(s, p) == Len(s) >= Len(p) /\ SubSeq(s, Len(s) - Len(p) + 1, Len(s)) = p

\* str.find: the first position (1-based) where sub occurs in s, 0 when it does not
find(s, sub) ==
    LET hits == {i \in 1..(Len(s) - Len(sub) + 1) : SubSeq(s, i, i + Len(sub) - 1) = sub}
    IN IF hits = {} THEN 0 ELSE CHOOSE i \in hits : \A j \in hits : i <= j

Digits == {"0", "1", "2", "3", "4", "5", "6", "7", "8", "9"}

scheme_chars ==
    {"a", "b", "c", "d", "e", "f", "g", "h", "i", "j", "k", "l", "m", "n", "o", "p", "q",
     "r", "s", "t", "u", "v", "w", "x", "y", "z", "+", "-", "."} \cup Digits

\* urlparse(url).scheme: the text before the first ':' when it is made of scheme
\* characters and what follows is not a port number; '' otherwise
urlparse_scheme(url) ==
    LET i == find(url, <<":">>)
        head == SubSeq(url, 1, i - 1)
        rest == SubSeq(url, i + 1, Len(url))
    IN IF i <= 1 THEN NoneStr
       ELSE IF \E k \in 1..Len(head) : head[k] \notin scheme_chars THEN NoneStr
       ELSE IF rest /= <<>> /\ \A k \in 1..Len(rest) : rest[k] \in Digits THEN NoneStr
       ELSE head

schemes ==
    {<<"f", "i", "l", "e">>, <<"h", "t", "t", "p">>, <<"s", "3">>, <<"f", "t", "p">>,
     <<"g", "d", "c">>}

FileSep == <<"f", "i", "l", "e", ":", "/", "/">>

\* s.split(sep)[1]: the text between the first and the second occurrence of sep;
\* the list has one element when sep does not occur, and [1] raises IndexError
split_second(s, sep) ==
    LET i == find(s, sep)
        after == SubSeq(s, i + Len(sep), Len(s))
        j == find(after, sep)
    IN IF j = 0 THEN after ELSE SubSeq(after, 1, j - 1)

(***************************************************************************)
(* configuration_sanity_checks and main()                                  *)
(***************************************************************************)
\* The checks in the order the code makes them; curl and docker are taken to be
\* installed. The result is the exception raised ("none": the function returns)
\* and the configuration it returns.
configuration_sanity_checks(c) ==
    LET inputs == {x \in {c.kallisto_index, c.star_index, c.rsem_ref, c.hera_index} : Truthy(x)}
        stripped == split_second(c.output_dir, FileSep)
        slash == [c EXCEPT !.output_dir = IF endswith(@, <<"/">>) THEN @ ELSE @ \o <<"/">>]
    IN IF ~(Truthy(c.kallisto_index) \/ Truthy(c.star_index) \/ Truthy(c.hera_index))
          THEN [err |-> "UserError", config |-> c]
       ELSE IF (Truthy(c.star_index) \/ Truthy(c.rsem_ref))
               /\ ~(Truthy(c.star_index) /\ Truthy(c.rsem_ref))
          THEN [err |-> "UserError", config |-> c]
       ELSE IF \E x \in inputs : urlparse_scheme(x) \notin schemes
          THEN [err |-> "UserError", config |-> c]
       ELSE IF ~Truthy(c.output_dir)
          THEN [err |-> "UserError", config |-> c]
       ELSE IF startswith(c.output_dir, <<"/">>)
          THEN [err |-> "none", config |-> slash]
       ELSE IF urlparse_scheme(c.output_dir) = <<"f", "i", "l", "e">>
          THEN IF find(c.output_dir, FileSep) = 0
                  THEN [err |-> "IndexError", config |-> c]
               ELSE IF ~startswith(stripped, <<"/">>)
                  THEN [err |-> "UserError", config |-> [c EXCEPT !.output_dir = stripped]]
               ELSE [err |-> "none",
                     config |-> [c EXCEPT !.output_dir =
                                    IF endswith(stripped, <<"/">>) THEN stripped
                                    ELSE stripped \o <<"/">>]]
       ELSE IF urlparse_scheme(c.output_dir) /= <<"s", "3">>
          THEN [err |-> "UserError", config |-> c]
       ELSE [err |-> "none", config |-> slash]

\* main(), the 'run' command: the manifest and the configuration are read, the
\* configuration is checked, and only then is the root job map_job(workflow,
\* samples, config) started. An exception of the checks leaves main().
main ==
    /\ pc = "start"
    /\ LET r == configuration_sanity_checks(config)
       IN /\ mainErr' = r.err
          /\ config' = r.config
          /\ pc' = IF r.err = "none" THEN "started" ELSE "aborted"
          /\ mapStack' = IF r.err = "none" THEN <<[i \in 1..Len(samples) |-> i]>> ELSE mapStack
    /\ UNCHANGED <<samples, lastNode, leaves, taskVars, tarVars, namesVars, sideVars>>

(***************************************************************************)
(* The task graph of one sample                                            *)
(***************************************************************************)
MaxUrls == 4

DlNames == <<"dl1", "dl2", "dl3", "dl4", "dl5", "dl6">>
FqNames == <<"fq1", "fq2", "fq3", "fq4", "fq5", "fq6">>

DlTask(i) == DlNames[i]
FqId(i) == FqNames[i]

DlTasks == {DlTask(i) : i \in 1..Len(DlNames)}

CleanupTasks == {"clean_raw", "clean_star", "clean_tx", "clean_rsem", "clean_inputs"}

Tasks ==
    {"workflow", "inputs", "download", "process", "cutadapt", "fastqc", "kallisto", "hera",
     "star", "bamqc", "save_bam", "save_wiggle", "rsem", "rsem_post", "consolidate"}
    \cup DlTasks \cup CleanupTasks

None == "None"

\* workflow(): the file type of the sample selects the acquisition job
IsBam(s) == samples[s].file_type = "bam"
IsTar(s) == samples[s].file_type = "tar"
IsFq(s) == samples[s].file_type = "fq"

(***************************************************************************)
(* Where each task is attached, and how: "child" (addChild), "followOn"    *)
(* (addFollowOn), "encChild" (addChild on an encapsulated job: a child of  *)
(* the job's encapsulating follow-on), "root" (spawned by map_job).        *)
(***************************************************************************)
\* Variants of the wiring, for comparison: the same jobs attached as children
StarCleanupAsChild == [parent |-> "star", kind |-> "child"]

ConsolidateAsChild == [parent |-> "workflow", kind |-> "child"]

\* toil_rnaseq.py:153  job.addFollowOnJobFn(cleanup_ids, [inputs.rv(0), inputs.rv(1)])
CleanupInputsEdge == [parent |-> "workflow", kind |-> "followOn"]

\* toil_rnaseq.py:154  job.addFollowOnJobFn(consolidate_output, config, output)
ConsolidateEdge == [parent |-> "workflow", kind |-> "followOn"]

\* toil_rnaseq.py:148  star.addFollowOnJobFn(cleanup_ids, ids_to_delete=[star.rv(2), star.rv(3)])
StarCleanupEdge == [parent |-> "star", kind |-> "followOn"]

\* preprocessing.py:205  job.addFollowOnJobFn(cleanup_ids, ids_to_delete)
RawCleanupEdge == [parent |-> "process", kind |-> "followOn"]

\* toil_rnaseq.py:62-69 (.encapsulate()), 83, 90, 97, 115: inputs.addChild(...)
AnalysisEdge == [parent |-> "inputs", kind |-> "encChild"]

FileTypes == {"tar", "fq", "bam"}

\* The edge task t hangs on in the graph of a sample of file type ft
Edge(ft, t) ==
    CASE t = "workflow" -> [parent |-> "map_job", kind |-> "root"]
      [] t = "inputs" -> [parent |-> "workflow", kind |-> "child"]
      [] t = "download" -> [parent |-> "inputs", kind |-> "child"]
      [] t \in DlTasks -> [parent |-> "download", kind |-> "child"]
      [] t = "process" -> [parent |-> "download", kind |-> IF ft = "fq" THEN "encChild" ELSE "child"]
      [] t = "clean_raw" -> RawCleanupEdge
      [] t = "cutadapt" -> [parent |-> IF ft = "bam" THEN "inputs" ELSE "process", kind |-> "child"]
      [] t \in {"fastqc", "kallisto", "hera", "star"} -> AnalysisEdge
      [] t \in {"bamqc", "save_bam", "save_wiggle", "rsem"} -> [parent |-> "star", kind |-> "child"]
      [] t = "clean_star" -> StarCleanupEdge
      [] t \in {"rsem_post", "clean_tx"} -> [parent |-> "rsem", kind |-> "child"]
      [] t = "clean_rsem" -> [parent |-> "rsem_post", kind |-> "child"]
      [] t = "clean_inputs" -> CleanupInputsEdge
      [] t = "consolidate" -> ConsolidateEdge

(***************************************************************************)
(* Toil's scheduling of a job graph: a child runs once its parent has run; *)
(* a follow-on once the parent has run and every child of the parent,      *)
(* with all its successors, has completed; a failed job's successors never *)
(* run.                                                                    *)
(***************************************************************************)
Present(s, t) == status[s][t] /= "absent"

EdgeKinds == {"child", "followOn", "encChild"}

\* The graph as tables: the edge of every task, and the tasks on every edge
EdgeTable == [ft \in FileTypes |-> [t \in Tasks |-> Edge(ft, t)]]

KidsTable ==
    [ft \in FileTypes |-> [p \in Tasks |-> [k \in EdgeKinds |->
        {t \in Tasks : EdgeTable[ft][t].parent = p /\ EdgeTable[ft][t].kind = k}]]]

Kids(s, p, k) == {t \in KidsTable[samples[s].file_type][p][k] : Present(s, t)}

\* Variant, for comparison: a job counts as completed once it has been run
Over(s, t) == status[s][t] /= "pending"

RECURSIVE Done(_, _)
InnerDone(s, t) ==
    /\ status[s][t] = "ok"
    /\ \A c \in Kids(s, t, "child") \cup Kids(s, t, "followOn") : Done(s, c)

Done(s, t) == InnerDone(s, t) /\ \A c \in Kids(s, t, "encChild") : Done(s, c)

Ready(s, t) ==
    /\ pc = "started"
    /\ status[s][t] = "pending"
    /\ LET e == EdgeTable[samples[s].file_type][t]
       IN CASE e.kind = "root" -> TRUE
            [] e.kind = "child" -> status[s][e.parent] = "ok"
            [] e.kind = "followOn" ->
                 status[s][e.parent] = "ok" /\ \A c \in Kids(s, e.parent, "child") : Done(s, c)
            [] e.kind = "encChild" -> InnerDone(s, e.parent)

(***************************************************************************)
(* Resource requirements of the jobs, as given when the job is created     *)
(***************************************************************************)
NoHint == [kind |-> "default", size |-> "default", of |-> "none", arg |-> 0]

Fixed(size) == [kind |-> "fixed", size |-> size, of |-> "none", arg |-> 0]

\* A number computed by the parent from sizes it already holds
Computed(size) == [kind |-> "computed", size |-> size, of |-> "none", arg |-> 0]

\* PromisedRequirement(lambda, of.rv(arg)); arg 0 for the whole return value,
\* else the 1-based position in it
Promised(size, of, arg) == [kind |-> "promise", size |-> size, of |-> of, arg |-> arg]

\* disk = '2G' if config.ci_test else config.max_sample_size
sample_disk(c) == IF c.ci_test THEN "2G" ELSE "max_sample_size"

\* The disk= argument of the call that creates task t for a sample of file type ft
disk(c, ft, t) ==
    CASE t = "inputs" /\ ft = "bam" ->
            Fixed(IF c.ci_test THEN "5 x 2G" ELSE "5 x max_sample_size")
      [] t = "download" /\ ft = "tar" -> Fixed(sample_disk(c))
      [] t \in DlTasks -> Fixed(sample_disk(c))
      [] t = "process" ->
            Promised(IF ft = "tar" THEN "10 x size" ELSE "5 x sum of sizes", "download", 0)
      [] t = "cutadapt" -> Computed("2 x sizes of the pair")
      [] t \in {"fastqc", "kallisto", "hera"} -> Promised("sum of sizes + 2G", "inputs", 0)
      [] t = "star" ->
            IF c.ci_test THEN Fixed("2G") ELSE Promised("sum of sizes + 50G", "inputs", 0)
      [] t \in {"bamqc", "save_bam"} -> Promised("size", "star", 3)
      [] t = "save_wiggle" -> Promised("size", "star", 4)
      [] t = "rsem" -> Promised("size + 20G", "star", 1)
      [] OTHER -> NoHint

\* The memory= argument: STAR's only
memory(c, t) ==
    IF t = "star" THEN (IF c.ci_test THEN "2G" ELSE "40G") ELSE "default"

Min(a, b) == IF a <= b THEN a ELSE b

\* multiprocessing.cpu_count() on the machine the workflow job runs on
cpu_count == 40

\* sys.maxint, the value of maxCores when no --maxCores is given: held as the
\* largest number at hand, of which only min(maxCores, cpu_count) is taken
sys_maxint == 2^30 + (2^30 - 1)

\* toil_rnaseq.py:55  config.cores = min(config.maxCores, multiprocessing.cpu_count())
config_cores(c) == Min(c.maxCores, cpu_count)

\* toil_rnaseq.py:76  cores = min(16, config.cores) if config.cores >= 32 else config.cores
optimized_cores(n) == IF n >= 32 THEN Min(16, n) ELSE n

\* toil_rnaseq.py:120  cores = min(4, config.cores), in the branch of bamqc
bamqc_cores(n) == Min(4, n)

\* toil_rnaseq.py:82  cores=2
fastqc_cores(n) == 2

\* The cores= argument of the call that creates task t, 0 for a job created
\* without one; RSEM is created with the value the variable cores has by then
cores(c, t) ==
    LET n == config_cores(c)
    IN CASE t = "fastqc" -> fastqc_cores(n)
         [] t = "kallisto" -> optimized_cores(n)
         [] t \in {"hera", "star"} -> n
         [] t = "bamqc" -> bamqc_cores(n)
         [] t = "rsem" -> IF c.bamqc THEN bamqc_cores(n) ELSE optimized_cores(n)
         [] OTHER -> 0

Hint(c, ft, t) == [disk |-> disk(c, ft, t), memory |-> memory(c, t), cores |-> cores(c, t)]

\* A job created without disk=, memory= or cores=
NoHints == [disk |-> NoHint, memory |-> "default", cores |-> 0]

\* Task t of sample s ends in state st, returning ret; it wrote the artifacts w,
\* asked the store to delete del, and added the tasks spawn to the graph.
Step(s, t, st, ret, w, del, spawn) ==
    /\ hint' = [hint EXCEPT ![s] =
                  [x \in Tasks |-> IF x \in spawn THEN Hint(config, samples[s].file_type, x)
                                   ELSE hint[s][x]]]
    /\ status' = [status EXCEPT ![s] =
                    [x \in Tasks |-> IF x = t THEN st
                                     ELSE IF x \in spawn THEN "pending" ELSE status[s][x]]]
    /\ rv' = [rv EXCEPT ![s][t] = ret]
    /\ store' = [store EXCEPT ![s] = (@ \cup w) \ del]
    /\ wrote' = [wrote EXCEPT ![s][t] = w]
    /\ removed' = [removed EXCEPT ![s][t] = del]

Raise(s, t, exc) == Step(s, t, exc, <<>>, {}, {}, {})

\* What a task of the graph leaves alone: the run, the fan-out, and, but for the
\* tasks that say otherwise, the configurations and the files moved out
frame == <<pc, mainErr, samples, mapVars, tarVars, namesVars, sideVars>>

notTask == <<frame, config, cfg, saved>>

\* A promised value that is read before its producer has returned
Unresolved == "unresolved"

Arg(ret, i) == IF i \in DOMAIN ret THEN ret[i] ELSE Unresolved

\* Variant, for comparison: every entry of the list, None included
AllEntries(ret) == {ret[i] : i \in DOMAIN ret}

\* jobs.py:16  x for x in ids_to_delete if x is not None
Ids(ret) == {ret[i] : i \in DOMAIN ret} \ {None}

(***************************************************************************)
(* map_job: the fan-out over the samples                                   *)
(***************************************************************************)
num_partitions == 100

\* Variant, for comparison: only the full chunks
FullPartitionsOnly(l, partition_size) ==
    [k \in 1..(Len(l) \div partition_size) |->
        SubSeq(l, (k - 1) * partition_size + 1, k * partition_size)]

\* Variant, for comparison: the whole list as the one chunk
WholeList(l, partition_size) == <<l>>

\* partitions(l, partition_size): l[i:i + partition_size] for i in xrange(0, len(l), partition_size)
partitions(l, partition_size) ==
    [k \in 1..((Len(l) + partition_size - 1) \div partition_size) |->
        SubSeq(l, (k - 1) * partition_size + 1, Min(k * partition_size, Len(l)))]

\* Variant, for comparison: a job for the first item only
FirstItemOnly(inputs) == {inputs[i] : i \in {1} \cap DOMAIN inputs}

\* jobs.py:37-38  for sample in inputs: job.addChildJobFn(func, sample, *args)
PerItem(inputs) == {inputs[i] : i \in DOMAIN inputs}

\* Variant, for comparison: recursing only above two items per partition
SplitAboveTwo(partition_size) == partition_size > 2

\* jobs.py:33  if partition_size > 1
MustSplit(partition_size) == partition_size > 1

\* The map_job node first in tree order runs: it adds one child map_job per
\* partition, or one child func(sample, *args) per item.
map_job ==
    /\ pc = "started"
    /\ mapStack /= <<>>
    /\ LET inputs == Head(mapStack)
           partition_size == Len(inputs) \div num_partitions
       IN IF MustSplit(partition_size)
             THEN /\ mapStack' = partitions(inputs, partition_size) \o Tail(mapStack)
                  /\ lastNode' = [inputs |-> inputs, leaf |-> FALSE,
                                  kids |-> partitions(inputs, partition_size)]
                  /\ UNCHANGED <<leaves, status>>
             ELSE /\ mapStack' = Tail(mapStack)
                  /\ lastNode' = [inputs |-> inputs, leaf |-> TRUE,
                                  kids |-> [i \in 1..Len(inputs) |-> <<inputs[i]>>]]
                  /\ leaves' = leaves \o inputs
                  /\ status' = [s \in DOMAIN status |->
                                  IF s \in PerItem(inputs)
                                     THEN [status[s] EXCEPT !["workflow"] = "pending"]
                                     ELSE status[s]]
    /\ UNCHANGED <<pc, mainErr, config, samples, store, rv, wrote, removed, output, qcFail,
                   delivered, cfg, hint, saved, tarVars, namesVars, sideVars>>

(***************************************************************************)
(* workflow(): the graph of one sample                                     *)
(***************************************************************************)
WantsFastqc(c) == c.fastqc

WantsKallisto(c) == Truthy(c.kallisto_index)

\* Variant, for comparison: Hera gated by the Kallisto index
HeraOnKallistoIndex(c) == Truthy(c.kallisto_index)

WantsHera(c) == Truthy(c.hera_index)

WantsStar(c) == Truthy(c.star_index) /\ Truthy(c.rsem_ref)

WantsBamqc(c) == WantsStar(c) /\ c.bamqc

WantsSaveBam(c) == WantsStar(c) /\ c.save_bam /\ ~c.bamqc

WantsWiggle(c) == WantsStar(c) /\ c.wiggle

\* Variant, for comparison: the aligned BAM kept for save_bam only
SaveBamOnly(c) == c.save_bam

\* run_star's save_aligned_bam argument: any([config.save_bam, config.bamqc])
SaveAlignedBam(c) == c.save_bam \/ c.bamqc

\* The keys of the output dict, each with the task and the index of the promised
\* return value stored under it.
OutputOf(c) ==
    (IF WantsFastqc(c) THEN {[label |-> <<"QC", "fastQC">>, task |-> "fastqc", i |-> 1]} ELSE {})
    \cup (IF WantsKallisto(c) THEN {[label |-> <<"Kallisto">>, task |-> "kallisto", i |-> 1]} ELSE {})
    \cup (IF WantsHera(c) THEN {[label |-> <<"Hera">>, task |-> "hera", i |-> 1]} ELSE {})
    \cup (IF WantsStar(c)
             THEN {[label |-> <<"QC", "STAR">>, task |-> "star", i |-> 2],
                   [label |-> <<"RSEM">>, task |-> "rsem_post", i |-> 1],
                   [label |-> <<"RSEM", "Hugo">>, task |-> "rsem_post", i |-> 2]}
             ELSE {})
    \cup (IF WantsBamqc(c) THEN {[label |-> <<"QC", "BamQC">>, task |-> "bamqc", i |-> 1]} ELSE {})

\* The jobs workflow() wraps and wires
WorkflowTasks(c) ==
    {"inputs", "clean_inputs", "consolidate"}
    \cup (IF WantsFastqc(c) THEN {"fastqc"} ELSE {})
    \cup (IF WantsKallisto(c) THEN {"kallisto"} ELSE {})
    \cup (IF WantsHera(c) THEN {"hera"} ELSE {})
    \cup (IF WantsStar(c)
             THEN {"star", "rsem", "rsem_post", "clean_star", "clean_tx", "clean_rsem"}
             ELSE {})
    \cup (IF WantsBamqc(c) THEN {"bamqc"} ELSE {})
    \cup (IF WantsSaveBam(c) THEN {"save_bam"} ELSE {})
    \cup (IF WantsWiggle(c) THEN {"save_wiggle"} ELSE {})

\* Variant, for comparison: workflow() works on the object it was handed
same_object(c) == [obj |-> "base", val |-> c]

\* toil_rnaseq.py:52  config.copy(): a new object with the attributes of config
copy(c) == [obj |-> "own", val |-> c]

\* Lines 53-55 and 68: the attributes workflow() writes for the sample d. Of
\* the URL the model keeps the number of files and the extension; gz is written
\* for fastq samples only (FALSE for None).
with_sample(c, d) ==
    [file_type |-> d.file_type, paired |-> d.paired, uuid |-> d.uuid,
     url |-> <<d.nfiles, d.gz>>, cores |-> config_cores(c)]
    @@ (IF d.file_type = "fq" THEN [gz |-> d.gz] ELSE <<>>)
    @@ c

workflow(s) ==
    /\ Ready(s, "workflow")
    /\ Step(s, "workflow", "ok", <<>>, {}, {}, WorkflowTasks(config))
    /\ output' = [output EXCEPT ![s] = OutputOf(config)]
    /\ LET mine == copy(config)
           own == with_sample(mine.val, samples[s])
       IN /\ cfg' = [cfg EXCEPT ![s] = own]
          /\ config' = IF mine.obj = "base" THEN own ELSE config
    /\ UNCHANGED <<frame, saved, qcFail, delivered>>

(***************************************************************************)
(* Acquiring the sample                                                    *)
(***************************************************************************)
download_and_process_tar(s) ==
    /\ IsTar(s)
    /\ Ready(s, "inputs")
    /\ Step(s, "inputs", "ok", <<>>, {}, {}, {"download", "process"})
    /\ UNCHANGED <<notTask, output, qcFail, delivered>>

download_and_process_fastqs(s) ==
    /\ IsFq(s)
    /\ Ready(s, "inputs")
    /\ Step(s, "inputs", "ok", <<>>, {}, {}, {"download", "process"})
    /\ UNCHANGED <<notTask, output, qcFail, delivered>>

Chr6 == <<"c", "h", "r", "6">>

\* region.lstrip('chr'): the leading characters c, h, r are stripped
RECURSIVE lstrip_chr(_)
lstrip_chr(r) ==
    IF r /= <<>> /\ Head(r) \in {"c", "h", "r"} THEN lstrip_chr(Tail(r)) ELSE r

\* Variant, for comparison: the region as given, twice
given_only(region) == <<region, region>>

\* bams.py:33  [region, 'chr' + region] if 'chr' not in region
\*             else [region, region.lstrip('chr')]
regions(region) ==
    IF find(region, <<"c", "h", "r">>) = 0
       THEN <<region, <<"c", "h", "r">> \o region>>
       ELSE <<region, lstrip_chr(region)>>

\* samtools view -c -f 1 bam r: the paired reads of the BAM of sample d in r
view_count(d, r) ==
    IF r = Chr6 THEN d.reads.chr6 ELSE IF r = <<"6">> THEN d.reads.six ELSE 0

\* assert any(x for x in results if x != 0)
bam_is_paired_end(d) ==
    LET results == [i \in 1..2 |-> view_count(d, regions(Chr6)[i])]
    IN \E i \in 1..2 : results[i] /= 0

\* The BAM is downloaded and converted to a read pair in the job itself, after
\* the check that it holds paired reads
download_and_process_bam(s) ==
    /\ IsBam(s)
    /\ Ready(s, "inputs")
    /\ IF bam_is_paired_end(samples[s])
          THEN Step(s, "inputs", "ok", <<"bam_R1", "bam_R2">>, {"bam_R1", "bam_R2"}, {},
                    IF config.cutadapt THEN {"cutadapt"} ELSE {})
          ELSE Raise(s, "inputs", "exception")    \* AssertionError
    /\ UNCHANGED <<notTask, output, qcFail, delivered>>

multiple_fastq_dowloading(s) ==
    /\ IsFq(s)
    /\ Ready(s, "download")
    /\ IF samples[s].paired /\ samples[s].nfiles % 2 /= 0
          THEN Raise(s, "download", "user_error")
          ELSE Step(s, "download", "ok", [i \in 1..samples[s].nfiles |-> FqId(i)], {}, {},
                    {DlTask(i) : i \in 1..samples[s].nfiles})
    /\ UNCHANGED <<notTask, output, qcFail, delivered>>

\* download_url_job for the tarball (the task "download") or for the i-th fastq URL
download_url_job(s, t) ==
    /\ \/ t = "download" /\ IsTar(s)
       \/ t \in DlTasks /\ IsFq(s)
    /\ Ready(s, t)
    /\ LET id == IF t = "download" THEN "tar"
                 ELSE FqId(CHOOSE i \in 1..Len(DlNames) : DlTask(i) = t)
       IN Step(s, t, "ok", <<id>>, {id}, {}, {})
    /\ UNCHANGED <<notTask, output, qcFail, delivered>>

(***************************************************************************)
(* Running a task against the job store                                    *)
(***************************************************************************)
\* A task body that reads the ids in reads (readGlobalFile raises when an id is
\* not in the store), then writes w, deletes del, adds the jobs in spawn and
\* returns ret.
RunTool(s, t, reads, ret, w, del, spawn) ==
    IF reads \subseteq store[s]
       THEN Step(s, t, "ok", ret, w, del, spawn)
       ELSE Raise(s, t, "missing_file")

\* The value the promise inputs.rv() resolves to: the return value of the last
\* job of the acquisition chain
InputsRv(s) ==
    IF config.cutadapt THEN rv[s]["cutadapt"]
    ELSE IF IsBam(s) THEN rv[s]["inputs"]
    ELSE rv[s]["process"]

\* The read ids a task is handed (r1_id, r2_id): r2_id is read only when set
ReadPair(ret) == {Arg(ret, 1), Arg(ret, 2)} \ {None}

(***************************************************************************)
(* File names in the work directory of process_sample                      *)
(***************************************************************************)
\* The characters of the names, in the order Python compares them
Chars == <<"-", ".", "/", "0", "1", "2", "3", "4", "5", "6", "7", "8", "9",
           "F", "R", "_", "a", "f", "g", "q", "r", "s", "t", "z">>

ord(ch) == CHOOSE i \in 1..Len(Chars) : Chars[i] = ch

\* a < b for two strings
RECURSIVE less(_, _)
less(a, b) ==
    IF b = <<>> THEN FALSE
    ELSE IF a = <<>> THEN TRUE
    ELSE IF Head(a) /= Head(b) THEN ord(Head(a)) < ord(Head(b))
    ELSE less(Tail(a), Tail(b))

\* sorted(fastqs)
sorted(fs) == SortSeq(fs, less)

\* '{}'.format(i) for an index below 100
str(i) == IF i < 10 THEN <<Chars[i + 4]>> ELSE <<Chars[(i \div 10) + 4], Chars[(i % 10) + 4]>>

FqExt(gz) == IF gz THEN <<".", "f", "q", ".", "g", "z">> ELSE <<".", "f", "q">>

\* 'Fastq_{}_R1{}'.format(i, ext) for even i, 'Fastq_{}_R2{}' for odd i (i from 0)
FastqName(i, ext) ==
    <<"F", "a", "s", "t", "q", "_">> \o str(i)
        \o <<"_", "R", IF i % 2 = 0 THEN "1" ELSE "2">> \o ext

\* The names process_sample gives to n downloaded fastqs
FastqNames(n, gz) == [j \in 1..n |-> FastqName(j - 1, FqExt(gz))]

\* R[12] or [12]\.f at position q of the name, or nothing
token(name, q) ==
    IF q + 1 <= Len(name) /\ name[q] = "R" /\ name[q + 1] \in {"1", "2"}
       THEN SubSeq(name, q, q + 1)
    ELSE IF /\ q + 2 <= Len(name)
            /\ name[q] \in {"1", "2"} /\ name[q + 1] = "." /\ name[q + 2] = "f"
       THEN SubSeq(name, q, q + 2)
    ELSE <<>>

\* Variant, for comparison: the token accepted wherever it stands
unanchored(name, p) == token(name, p)

\* (?:^|[._-])(R[12]|[12]\.f) tried at position p: the text matched, or nothing
match_at(name, p) ==
    IF p = 1 /\ token(name, 1) /= <<>> THEN token(name, 1)
    ELSE IF name[p] \in {".", "_", "-"} /\ token(name, p + 1) /= <<>>
       THEN <<name[p]>> \o token(name, p + 1)
    ELSE <<>>

\* pattern.search(name).group(), or nothing when there is no match
search(name) ==
    LET ps == {p \in 1..Len(name) : match_at(name, p) /= <<>>}
    IN IF ps = {} THEN <<>>
       ELSE match_at(name, CHOOSE p \in ps : \A q \in ps : p <= q)

in(ch, s) == \E i \in 1..Len(s) : s[i] = ch

\* The paired branch of process_sample up to the require: the files in sorted
\* order go to r1 or r2 by their match; the first file without a match raises
\* UserError naming it, unequal lists raise UserError.
pair_up(fs) ==
    LET so == sorted(fs)
        bad == {i \in 1..Len(so) : search(so[i]) = <<>>}
        isR1(n) == in("1", search(n))
        isR2(n) == ~in("1", search(n)) /\ in("2", search(n))
    IN IF bad /= {}
          THEN [err |-> "UserError", offending |-> so[CHOOSE i \in bad : \A j \in bad : i <= j],
                r1 |-> <<>>, r2 |-> <<>>]
       ELSE IF Len(SelectSeq(so, isR1)) /= Len(SelectSeq(so, isR2))
          THEN [err |-> "UserError", offending |-> <<>>, r1 |-> <<>>, r2 |-> <<>>]
       ELSE [err |-> "none", offending |-> <<>>,
             r1 |-> SelectSeq(so, isR1), r2 |-> SelectSeq(so, isR2)]

\* A member of a tarball that follows the convention: s<k>_R1.fq, s<k>_R2.fq, ...
TarMember(j, gz) ==
    <<"s">> \o str((j + 1) \div 2) \o <<"_", "R", IF j % 2 = 1 THEN "1" ELSE "2">> \o FqExt(gz)

\* A member that does not
Misnamed(gz) == <<"r", "1">> \o FqExt(gz)

\* The files process_sample finds for the sample d: the downloads under the
\* names it gave them, or the members of the tarball; a tarball that is not
\* named as the convention asks has one misnamed member, the last of its list.
FilesOf(d) ==
    IF d.file_type = "fq" THEN FastqNames(d.nfiles, d.gz)
    ELSE [j \in 1..d.nfiles |->
            IF ~d.named /\ j = d.nfiles THEN Misnamed(d.gz) ELSE TarMember(j, d.gz)]

(***************************************************************************)
(* process_sample                                                          *)
(***************************************************************************)
\* fastq_ids: the promised ids of the downloads, in URL order (None for a tar)
fastq_ids(s) == [i \in 1..samples[s].nfiles |-> Arg(rv[s][DlTask(i)], 1)]

\* The read-1 and read-2 files of a paired sample, as process_sample sorts them
NumR1(s) == Len(pair_up(FilesOf(samples[s])).r1)

NumR2(s) == Len(pair_up(FilesOf(samples[s])).r2)

command(s) == IF samples[s].gz THEN "zcat" ELSE "cat"

\* "If sample is already a single R1 / R2 fastq"
AlreadySingle(s) ==
    command(s) = "cat" /\ samples[s].nfiles = (IF samples[s].paired THEN 2 ELSE 1)

\* ids_to_delete = [input_tar] + fastq_ids if delete_fastqs and fastq_ids else [input_tar]
ids_to_delete(s) ==
    IF IsTar(s) THEN <<Arg(rv[s]["download"], 1)>>
    ELSE IF ~AlreadySingle(s) THEN <<None>> \o fastq_ids(s)
    ELSE <<None>>

CutadaptArgs(s) == IF IsBam(s) THEN rv[s]["inputs"] ELSE rv[s]["process"]

\* The ids task t reads from the store (readGlobalFile), as its arguments resolve
TaskReads(s, t) ==
    CASE t = "process" ->
            IF IsTar(s) THEN {Arg(rv[s]["download"], 1)}
            ELSE {fastq_ids(s)[i] : i \in 1..samples[s].nfiles}
      [] t = "cutadapt" -> ReadPair(CutadaptArgs(s))
      [] t \in {"fastqc", "kallisto", "hera", "star"} -> ReadPair(InputsRv(s))
      [] t \in {"bamqc", "save_bam"} -> {Arg(rv[s]["star"], 3)}
      [] t = "save_wiggle" -> {Arg(rv[s]["star"], 4)}
      [] t = "rsem" -> {Arg(rv[s]["star"], 1)}
      [] t = "rsem_post" -> {Arg(rv[s]["rsem"], 1), Arg(rv[s]["rsem"], 2)}
      [] t = "consolidate" -> {Arg(rv[s][o.task], o.i) : o \in output[s]}
      [] OTHER -> {}

process_sample(s) ==
    /\ Ready(s, "process")
    /\ LET ins == TaskReads(s, "process")
           next == {"clean_raw"} \cup (IF config.cutadapt THEN {"cutadapt"} ELSE {})
           r2new == IF samples[s].paired THEN "R2" ELSE None
       IN IF ~(ins \subseteq store[s])
             THEN Raise(s, "process", "missing_file")
          ELSE IF samples[s].paired /\ pair_up(FilesOf(samples[s])).err /= "none"
             THEN Raise(s, "process", "user_error")
          ELSE IF AlreadySingle(s)
             THEN IF IsTar(s)
                     THEN Raise(s, "process", "exception")   \* fastq_ids[0] with fastq_ids = None
                     ELSE Step(s, "process", "ok",
                               <<fastq_ids(s)[1],
                                 IF samples[s].paired THEN fastq_ids(s)[2] ELSE None>>,
                               {}, {}, next)
          ELSE Step(s, "process", "ok", <<"R1", r2new>>, {"R1", r2new} \ {None}, {}, next)
    /\ UNCHANGED <<notTask, output, qcFail, delivered>>

\* cleanup_ids(ids_to_delete): every id that is not None is deleted
CleanupArgs(s, t) ==
    CASE t = "clean_raw" -> ids_to_delete(s)
      [] t = "clean_star" -> <<Arg(rv[s]["star"], 3), Arg(rv[s]["star"], 4)>>
      [] t = "clean_tx" -> <<Arg(rv[s]["star"], 1)>>
      [] t = "clean_rsem" -> <<Arg(rv[s]["rsem"], 1), Arg(rv[s]["rsem"], 2)>>
      [] t = "clean_inputs" -> <<Arg(InputsRv(s), 1), Arg(InputsRv(s), 2)>>

cleanup_ids(s, t) ==
    /\ t \in CleanupTasks
    /\ Ready(s, t)
    /\ LET ids == Ids(CleanupArgs(s, t))
       IN IF None \in ids
             THEN Raise(s, t, "exception")    \* deleteGlobalFile(None)
             ELSE Step(s, t, "ok", <<>>, {}, ids, {})
    /\ UNCHANGED <<notTask, output, qcFail, delivered>>

S3Scheme == <<"s", "3">>

S3Prefix == <<"s", "3", ":", "/", "/">>

\* move_or_upload(config, files, enforce_ssec): how the files leave the worker,
\* or the exception raised
move_or_upload(c, enforce_ssec) ==
    IF urlparse_scheme(c.output_dir) = S3Scheme
       THEN IF enforce_ssec /\ ~Truthy(c.ssec) THEN "user_error"
            ELSE IF ~startswith(c.output_dir, S3Prefix) THEN "user_error"
            ELSE "uploaded"
       ELSE "copied"

\* Variant, for comparison: the key is not asked for
no_enforcement == FALSE

\* urls.py:93  def move_or_upload(config, files, enforce_ssec=True)
enforce_ssec_default == TRUE

\* Variant, for comparison: the BamQC job never saves the BAM
qc_bam_dropped(c) == "skipped"

\* qc.py:72-80: what the BamQC job does with the BAM when save_bam is set
save_qc_bam(c) ==
    IF ~c.save_bam THEN "skipped"
    ELSE IF urlparse_scheme(c.output_dir) = S3Scheme /\ Truthy(c.ssec)
       THEN IF startswith(c.output_dir, S3Prefix) THEN "uploaded" ELSE "user_error"
    ELSE IF urlparse_scheme(c.output_dir) /= S3Scheme THEN "copied"
    ELSE "skipped"

\* The files of sample s in output_dir once the file what has left the worker
\* in the way how: s3am_upload is given s3_key_path=config.ssec
Saved(s, what, how) ==
    IF how \in {"uploaded", "copied"}
       THEN saved[s] \cup {[what |-> what, how |-> how,
                            key |-> IF how = "uploaded" THEN config.ssec ELSE NoneStr]}
       ELSE saved[s]

(***************************************************************************)
(* Trimming, QC, quantifiers, aligner                                      *)
(***************************************************************************)
\* Variant, for comparison: the reverse adapter is never asked for
adapter_optional(r2_id, rev_3pr_adapter) == FALSE

\* preprocessing.py:37-38  if r2_id: require(rev_3pr_adapter, ...)
adapter_missing(r2_id, rev_3pr_adapter) == r2_id /= None /\ ~Truthy(rev_3pr_adapter)

\* R1 is read, the reverse adapter is required when there is an R2, R2 is read,
\* then the tool runs and the trimmed reads are written.
run_cutadapt(s) ==
    /\ Ready(s, "cutadapt")
    /\ LET r2_id == Arg(CutadaptArgs(s), 2)
           r2 == IF r2_id /= None THEN "R2_cut" ELSE None
       IN IF Arg(CutadaptArgs(s), 1) \notin store[s]
             THEN Raise(s, "cutadapt", "missing_file")
          ELSE IF adapter_missing(r2_id, config.rev_3pr_adapter)
             THEN Raise(s, "cutadapt", "user_error")
          ELSE RunTool(s, "cutadapt", TaskReads(s, "cutadapt"), <<"R1_cut", r2>>,
                       {"R1_cut", r2} \ {None}, {}, {})
    /\ UNCHANGED <<notTask, output, qcFail, delivered>>

run_fastqc(s) ==
    /\ Ready(s, "fastqc")
    /\ RunTool(s, "fastqc", TaskReads(s, "fastqc"), <<"fastqc_tar">>, {"fastqc_tar"}, {}, {})
    /\ UNCHANGED <<notTask, output, qcFail, delivered>>

run_kallisto(s) ==
    /\ Ready(s, "kallisto")
    /\ RunTool(s, "kallisto", TaskReads(s, "kallisto"), <<"kallisto_tar">>, {"kallisto_tar"}, {}, {})
    /\ UNCHANGED <<notTask, output, qcFail, delivered>>

run_hera(s) ==
    /\ Ready(s, "hera")
    /\ RunTool(s, "hera", TaskReads(s, "hera"), <<"hera_tar">>, {"hera_tar"}, {}, {})
    /\ UNCHANGED <<notTask, output, qcFail, delivered>>

\* Returns transcriptome_id, star_id, aligned_id, wiggle_id
run_star(s) ==
    /\ Ready(s, "star")
    /\ LET aligned_id == IF SaveAlignedBam(config) THEN "aligned" ELSE None
           wiggle_id == IF config.wiggle THEN "wiggle" ELSE None
       IN RunTool(s, "star", TaskReads(s, "star"),
                  <<"transcriptome", "star_tar", aligned_id, wiggle_id>>,
                  {"transcriptome", "star_tar", aligned_id, wiggle_id} \ {None}, {}, {})
    /\ UNCHANGED <<notTask, output, qcFail, delivered>>

run_rsem(s) ==
    /\ Ready(s, "rsem")
    /\ RunTool(s, "rsem", TaskReads(s, "rsem"), <<"gene", "isoform">>, {"gene", "isoform"}, {}, {})
    /\ UNCHANGED <<notTask, output, qcFail, delivered>>

run_rsem_gene_mapping(s) ==
    /\ Ready(s, "rsem_post")
    /\ RunTool(s, "rsem_post", TaskReads(s, "rsem_post"),
               <<"rsem_tar", "hugo_tar">>, {"rsem_tar", "hugo_tar"}, {}, {})
    /\ UNCHANGED <<notTask, output, qcFail, delivered>>

\* The BamQC job: the QC verdict (fail_flag) is whatever the tool finds; the
\* aligned BAM is deleted by the job itself, the QC archive is returned.
run_bam_qc(s) ==
    /\ Ready(s, "bamqc")
    /\ \E fail_flag \in BOOLEAN :
          LET ran == TaskReads(s, "bamqc") \subseteq store[s]
          IN /\ IF ran /\ save_qc_bam(config) = "user_error"
                   THEN Raise(s, "bamqc", "user_error")
                   ELSE RunTool(s, "bamqc", TaskReads(s, "bamqc"), <<"bamqc_tar">>,
                                {"bamqc_tar"}, {Arg(rv[s]["star"], 3)}, {})
             /\ qcFail' = [qcFail EXCEPT ![s] = fail_flag /\ ran]
             /\ saved' = [saved EXCEPT ![s] =
                             IF ran THEN Saved(s, "bam", save_qc_bam(config)) ELSE @]
    /\ UNCHANGED <<frame, config, cfg, output, delivered>>

sort_and_save_bam(s) ==
    /\ Ready(s, "save_bam")
    /\ LET ran == TaskReads(s, "save_bam") \subseteq store[s]
           how == move_or_upload(config, enforce_ssec_default)
       IN /\ IF ran /\ how = "user_error"
                THEN Raise(s, "save_bam", "user_error")
                ELSE RunTool(s, "save_bam", TaskReads(s, "save_bam"), <<>>, {}, {}, {})
          /\ saved' = [saved EXCEPT ![s] = IF ran THEN Saved(s, "bam", how) ELSE @]
    /\ UNCHANGED <<frame, config, cfg, output, qcFail, delivered>>

save_wiggle(s) ==
    /\ Ready(s, "save_wiggle")
    /\ LET ran == TaskReads(s, "save_wiggle") \subseteq store[s]
           how == move_or_upload(config, FALSE)
       IN /\ IF ran /\ how = "user_error"
                THEN Raise(s, "save_wiggle", "user_error")
                ELSE RunTool(s, "save_wiggle", TaskReads(s, "save_wiggle"), <<>>, {}, {}, {})
          /\ saved' = [saved EXCEPT ![s] = IF ran THEN Saved(s, "wiggle", how) ELSE @]
    /\ UNCHANGED <<frame, config, cfg, output, qcFail, delivered>>

(***************************************************************************)
(* Delivery: move_or_upload and consolidate_output                         *)
(***************************************************************************)
\* Variant, for comparison: the first component of the path
TopLevel(path) == path[1]

\* os.path.basename / os.path.join on paths kept as sequences of components
basename(path) == path[Len(path)]

join(a, b) == a \o b

\* The member names of the combined archive: for every input archive, in turn,
\* every member renamed to <uuid>/<tool>/<basename of the member>
RECURSIVE consolidate(_, _)
consolidate(uuid, tars) ==
    IF tars = <<>> THEN <<>>
    ELSE LET name == join(<<uuid>>, Head(tars).label)
             members == Head(tars).members
         IN [i \in 1..Len(members) |-> join(name, <<basename(members[i])>>)]
            \o consolidate(uuid, Tail(tars))

\* out_tar: config.uuid + '.tar.gz'
out_tar(uuid) == <<uuid, ".tar.gz">>

\* The members each tool packs into its result archive (tarball_files)
Members(s, h) ==
    CASE h = "fastqc_tar" ->
            IF Arg(InputsRv(s), 2) /= None
               THEN << <<"R1_fastqc.html">>, <<"R1_fastqc.zip">>, <<"R2_fastqc.html">>,
                       <<"R2_fastqc.zip">> >>
               ELSE << <<"R1_fastqc.html">>, <<"R1_fastqc.zip">> >>
      [] h = "kallisto_tar" ->
            << <<"run_info.json">>, <<"abundance.tsv">>, <<"abundance.h5">>, <<"fusion.txt">> >>
      [] h = "hera_tar" ->
            << <<"abundance.gene.tsv">>, <<"abundance.h5">>, <<"abundance.tsv">>,
               <<"fusion.bedpe">>, <<"summary">> >>
      [] h = "star_tar" -> << <<"rnaLog.final.out">>, <<"rnaSJ.out.tab">> >>
      [] h = "rsem_tar" -> << <<"rsem_genes.results">>, <<"rsem_isoforms.results">> >>
      [] h = "hugo_tar" -> << <<"rsem_genes.hugo.results">>, <<"rsem_isoforms.hugo.results">> >>
      [] h = "bamqc_tar" ->
            << <<"readDist.txt">>, <<"rnaAligned.out.md.sorted.geneBodyCoverage.curves.pdf">>,
               <<"rnaAligned.out.md.sorted.geneBodyCoverage.txt">>,
               <<IF qcFail[s] THEN "readDist.txt_FAIL_qc.txt" ELSE "readDist.txt_PASS_qc.txt">> >>
      [] OTHER -> <<>>

LabelOrder ==
    << <<"QC", "fastQC">>, <<"Kallisto">>, <<"Hera">>, <<"QC", "STAR">>, <<"QC", "BamQC">>,
       <<"RSEM">>, <<"RSEM", "Hugo">> >>

\* The promised ids of the output dict, resolved
OutputId(s, l) == LET o == CHOOSE x \in output[s] : x.label = l IN Arg(rv[s][o.task], o.i)

OutputLabels(s) ==
    LET has(l) == \E o \in output[s] : o.label = l
    IN SelectSeq(LabelOrder, has)

NoArchive == [name |-> <<>>, members |-> <<>>, how |-> "none"]

consolidate_output(s) ==
    /\ Ready(s, "consolidate")
    /\ LET labels == OutputLabels(s)
           reads == TaskReads(s, "consolidate")
           tars == [i \in 1..Len(labels) |->
                      [label |-> labels[i], members |-> Members(s, OutputId(s, labels[i]))]]
           how == move_or_upload(config, FALSE)
       IN IF ~(reads \subseteq store[s])
             THEN /\ Raise(s, "consolidate", "missing_file")
                  /\ UNCHANGED delivered
          ELSE IF how = "user_error"
             THEN /\ Raise(s, "consolidate", "user_error")
                  /\ UNCHANGED delivered
          ELSE /\ Step(s, "consolidate", "ok", <<>>, {}, {}, {})
               /\ delivered' = [delivered EXCEPT ![s] =
                                   [name |-> out_tar(samples[s].uuid),
                                    members |-> consolidate(samples[s].uuid, tars),
                                    how |-> how]]
    /\ UNCHANGED <<notTask, output, qcFail>>

(***************************************************************************)
(* Failure of an external tool (docker call, download, tar, samtools)      *)
(***************************************************************************)
ToolTasks ==
    {"download", "process", "cutadapt", "fastqc", "kallisto", "hera", "star", "bamqc",
     "save_bam", "save_wiggle", "rsem", "rsem_post"} \cup DlTasks

\* A non-zero exit status of the tool raises out of the job: the job fails and
\* none of its successors is ever run.
tool_fails(s, t) ==
    /\ t \in ToolTasks \/ (t = "inputs" /\ IsBam(s))
    /\ ~(t = "download" /\ IsFq(s))
    /\ Ready(s, t)
    /\ t = "cutadapt" =>      \* the tool is not reached when the require fails
          ~adapter_missing(Arg(CutadaptArgs(s), 2), config.rev_3pr_adapter)
    /\ Raise(s, t, "tool_failed")
    /\ UNCHANGED <<notTask, output, qcFail, delivered>>

(***************************************************************************)
(* One sample, every configuration                                         *)
(***************************************************************************)
GoodUrl == <<"s", "3", ":", "/", "/", "b", "/", "i">>

LocalDir == <<"/", "o", "/">>

\* An adapter sequence (the default rev-3pr-adapter starts with it)
Adapter == <<"A", "G", "A", "T">>

\* A BAM with paired reads in the region sampled, named chr6 in it
SomeReads == [chr6 |-> 1, six |-> 0]

\* The sample lines parse_samples accepts
SampleSet ==
    {d \in [file_type : FileTypes, paired : BOOLEAN, uuid : {"S1"}, nfiles : 1..MaxUrls,
            gz : BOOLEAN, named : BOOLEAN, reads : {SomeReads}] :
        /\ d.file_type = "bam" => (d.nfiles = 1 /\ ~d.gz)
        /\ ~d.named => (d.file_type = "tar" /\ d.paired)}

\* The configurations configuration_sanity_checks lets through, as it returns
\* them. The flags of the alignment branch are read only inside that branch.
ConfigSet ==
    {c \in [kallisto_index : {NoneStr, GoodUrl}, hera_index : {NoneStr, GoodUrl},
            star_index : {NoneStr, GoodUrl}, rsem_ref : {NoneStr, GoodUrl},
            cutadapt : BOOLEAN, fastqc : BOOLEAN, bamqc : BOOLEAN, save_bam : BOOLEAN,
            wiggle : BOOLEAN, ssec : {NoneStr}, output_dir : {LocalDir},
            ci_test : {FALSE}, rev_3pr_adapter : {Adapter}, maxCores : {sys_maxint}] :
        /\ configuration_sanity_checks(c).err = "none"
        /\ configuration_sanity_checks(c).config = c
        /\ ~WantsStar(c) => ~(c.bamqc \/ c.save_bam \/ c.wiggle)}

\* Every configuration is run on one sample of each file type, and every
\* sample under the configurations that differ in the acquisition stage.
RepresentativeSamples ==
    {d \in SampleSet :
        \/ d.file_type = "tar" /\ d.paired /\ d.nfiles = 2 /\ d.gz /\ d.named
        \/ d.file_type = "fq" /\ ~d.paired /\ d.nfiles = 1 /\ ~d.gz
        \/ d.file_type = "bam" /\ d.paired}

AcquisitionConfigs ==
    {c \in ConfigSet : Truthy(c.kallisto_index) /\ ~Truthy(c.hera_index) /\ ~WantsStar(c)}

NoTasks == [t \in Tasks |-> "absent"]

\* No workflow() has made its copy of the configuration yet
NoCfg == [uuid |-> "none"]

\* No file name has been classified
NoMerge == [err |-> "none", offending |-> <<>>, r1 |-> <<>>, r2 |-> <<>>]

NamesIdle == files = <<>> /\ merged = NoMerge

\* No call of _s3am_with_retry is under way
NoCall == [args |-> "none", command |-> <<>>, codes |-> <<>>, outcome |-> "idle"]

\* The docker wrapper is not in use
NoWrapper == [args |-> "none", manifest |-> <<>>, outcome |-> "idle"]

SideIdle == s3am = NoCall /\ wrapper = NoWrapper

TaskInit(n) ==
    /\ status = [s \in 1..n |-> NoTasks]
    /\ store = [s \in 1..n |-> {}]
    /\ rv = [s \in 1..n |-> [t \in Tasks |-> <<>>]]
    /\ wrote = [s \in 1..n |-> [t \in Tasks |-> {}]]
    /\ removed = [s \in 1..n |-> [t \in Tasks |-> {}]]
    /\ output = [s \in 1..n |-> {}]
    /\ qcFail = [s \in 1..n |-> FALSE]
    /\ delivered = [s \in 1..n |-> NoArchive]
    /\ cfg = [s \in 1..n |-> NoCfg]
    /\ hint = [s \in 1..n |-> [t \in Tasks |-> NoHints]]
    /\ saved = [s \in 1..n |-> {}]

NoNode == [inputs |-> <<>>, leaf |-> FALSE, kids |-> <<>>]

Init ==
    /\ pc = "started"
    /\ mainErr = "none"
    /\ \E d \in SampleSet, c \in ConfigSet :
          /\ d \in RepresentativeSamples \/ c \in AcquisitionConfigs
          /\ config = c
          /\ samples = <<d>>
    /\ mapStack = << <<1>> >>
    /\ lastNode = NoNode
    /\ leaves = <<>>
    /\ TaskInit(1)
    /\ NamesIdle
    /\ SideIdle
    /\ tarIn = <<>>
    /\ tarOut = <<>>

TaskNext(s) ==
    \/ workflow(s)
    \/ download_and_process_tar(s)
    \/ download_and_process_fastqs(s)
    \/ download_and_process_bam(s)
    \/ multiple_fastq_dowloading(s)
    \/ \E t \in DlTasks \cup {"download"} : download_url_job(s, t)
    \/ process_sample(s)
    \/ \E t \in CleanupTasks : cleanup_ids(s, t)
    \/ run_cutadapt(s)
    \/ run_fastqc(s)
    \/ run_kallisto(s)
    \/ run_hera(s)
    \/ run_star(s)
    \/ run_bam_qc(s)
    \/ sort_and_save_bam(s)
    \/ save_wiggle(s)
    \/ run_rsem(s)
    \/ run_rsem_gene_mapping(s)
    \/ consolidate_output(s)
    \/ \E t \in Tasks : tool_fails(s, t)

Next ==
    \/ map_job
    \/ \E s \in DOMAIN status : TaskNext(s)

Spec == Init /\ [][Next]_vars

(***************************************************************************)
(* Properties of the graph of one sample                                   *)
(***************************************************************************)
Readers ==
    {"process", "cutadapt", "fastqc", "kallisto", "hera", "star", "rsem", "rsem_post", "bamqc",
     "save_bam", "save_wiggle", "consolidate"}

\* C1: no cleanup_ids task deletes an artifact while a task that reads that
\* artifact has not yet completed: whenever a cleanup task has run, nothing it
\* deleted is an input of a task that is still waiting to run, and no task ever
\* fails reading an id that is gone from the store.
CleanupSafe ==
    \A s \in DOMAIN status :
        /\ \A t \in Tasks : status[s][t] /= "missing_file"
        /\ \A c \in CleanupTasks, t \in Readers :
              (status[s][c] = "ok" /\ status[s][t] = "pending")
                 => removed[s][c] \cap TaskReads(s, t) = {}

\* A run with the alignment branch where the aligned BAM and the wiggle were
\* read by their savers, every cleanup has deleted its ids, and the sample was
\* consolidated.
CleanupSafeWitness ==
    \E s \in DOMAIN status :
        /\ \A c \in CleanupTasks : status[s][c] = "ok"
        /\ removed[s]["clean_star"] = {"aligned", "wiggle"}
        /\ removed[s]["clean_raw"] /= {}
        /\ removed[s]["clean_inputs"] /= {}
        /\ status[s]["save_bam"] = "ok"
        /\ status[s]["save_wiggle"] = "ok"
        /\ status[s]["consolidate"] = "ok"

AnalysisTasks ==
    {"fastqc", "kallisto", "hera", "star", "bamqc", "save_bam", "save_wiggle", "rsem", "rsem_post"}

\* C2: consolidate_output of a sample starts only after every task of every
\* configured branch of that sample has completed successfully.
ConsolidateAfterBranches ==
    \A s \in DOMAIN status :
        status[s]["consolidate"] \notin {"absent", "pending"} =>
            /\ config.fastqc => status[s]["fastqc"] = "ok"
            /\ Truthy(config.kallisto_index) => status[s]["kallisto"] = "ok"
            /\ Truthy(config.hera_index) => status[s]["hera"] = "ok"
            /\ (Truthy(config.star_index) /\ Truthy(config.rsem_ref)) =>
                  /\ \A t \in {"star", "rsem", "rsem_post"} : status[s][t] = "ok"
                  /\ config.bamqc => status[s]["bamqc"] = "ok"
                  /\ (config.save_bam /\ ~config.bamqc) => status[s]["save_bam"] = "ok"
                  /\ config.wiggle => status[s]["save_wiggle"] = "ok"
            /\ \A t \in AnalysisTasks : status[s][t] \in {"absent", "ok"}

\* consolidate_output has run for a sample with all four branches and BamQC
ConsolidateAfterBranchesWitness ==
    \E s \in DOMAIN status :
        /\ status[s]["consolidate"] = "ok"
        /\ \A t \in {"fastqc", "kallisto", "hera", "star", "bamqc", "save_wiggle", "rsem",
                     "rsem_post"} : status[s][t] = "ok"

Label(s) == {o.label : o \in output[s]}

ShortCircuitReuse ==
    \A s \in DOMAIN status :
        (/\ samples[s].file_type \in {"tar", "fq"}
         /\ ~samples[s].gz
         /\ samples[s].nfiles = (IF samples[s].paired THEN 2 ELSE 1)
         /\ status[s]["process"] \notin {"absent", "pending", "tool_failed"})
        => /\ status[s]["process"] = "ok"
           /\ wrote[s]["process"] = {}
           /\ Ids(rv[s]["process"]) \subseteq
                 UNION {wrote[s][t] : t \in DlTasks \cup {"download"}}
           /\ status[s]["clean_raw"] = "ok" =>
                 removed[s]["clean_raw"] \cap Ids(rv[s]["process"]) = {}

\* C10: when BamQC signals a quality failure the archive delivered for the
\* sample is named FAIL.<sample_id>.tar.gz, and <sample_id>.tar.gz when BamQC
\* passes or is not run.
FailPrefixNaming ==
    \A s \in DOMAIN status :
        delivered[s] /= NoArchive =>
            delivered[s].name =
                IF status[s]["bamqc"] = "ok" /\ qcFail[s]
                   THEN <<"FAIL.", samples[s].uuid, ".tar.gz">>
                   ELSE <<samples[s].uuid, ".tar.gz">>

(***************************************************************************)
(* map_job alone, over input lists of every length up to MaxItems          *)
(***************************************************************************)
MaxItems == 500

ItemSample ==
    [file_type |-> "fq", paired |-> FALSE, uuid |-> "S1", nfiles |-> 1, gz |-> FALSE,
     named |-> TRUE, reads |-> SomeReads]

InitMap ==
    /\ pc = "started"
    /\ mainErr = "none"
    /\ config \in {c \in ConfigSet : c \in AcquisitionConfigs /\ ~c.cutadapt /\ ~c.fastqc}
    /\ \E n \in 0..MaxItems : samples = [i \in 1..n |-> ItemSample]
    /\ mapStack = <<[i \in 1..Len(samples) |-> i]>>
    /\ lastNode = NoNode
    /\ leaves = <<>>
    /\ TaskInit(0)
    /\ NamesIdle
    /\ SideIdle
    /\ tarIn = <<>>
    /\ tarOut = <<>>

NextMap == map_job

SpecMap == InitMap /\ [][NextMap]_vars

\* The concatenation of a sequence of sequences (by halves)
RECURSIVE Flatten(_)
Flatten(seqs) ==
    IF seqs = <<>> THEN <<>>
    ELSE IF Len(seqs) = 1 THEN seqs[1]
    ELSE LET h == Len(seqs) \div 2
         IN Flatten(SubSeq(seqs, 1, h)) \o Flatten(SubSeq(seqs, h + 1, Len(seqs)))

AllItems == [i \in 1..Len(samples) |-> i]

\* C4: the leaf jobs spawned by the tree of map_job nodes are exactly one per
\* item of the input list, in input order, and the chunks a node hands to its
\* children are contiguous slices in input order whose concatenation is the
\* node's input: at every moment the leaves spawned so far followed by the items
\* of the nodes still to run are the input list.
MapJobExactlyOnce ==
    /\ Flatten(lastNode.kids) = lastNode.inputs
    /\ \A k \in DOMAIN lastNode.kids : lastNode.kids[k] /= <<>>
    /\ leaves \o Flatten(mapStack) = AllItems
    /\ mapStack = <<>> => leaves = AllItems

\* 250 items: the root has handed out chunks, every chunk node has run, and the
\* leaves are the 250 items
MapJobExactlyOnceWitness ==
    /\ Len(samples) = 250
    /\ mapStack = <<>>
    /\ Len(leaves) = 250
    /\ lastNode.leaf /\ Len(lastNode.inputs) = 2

\* C5 as stated: no node created by map_job has more than 100 direct children.
FanoutAtMost100 == Len(lastNode.kids) <= 100

\* C5, amended: no node created by map_job has 200 (twice num_partitions) or
\* more direct children.
FanoutBelow200 == Len(lastNode.kids) < 2 * num_partitions

\* A node with 199 leaf children, and one with 150 chunk children
FanoutBelow200Witness ==
    \/ lastNode.leaf /\ Len(lastNode.kids) = 199
    \/ ~lastNode.leaf /\ Len(lastNode.kids) = 150

(***************************************************************************)
(* main() over raw configurations                                          *)
(***************************************************************************)
LocalUrl == <<"/", "i">>

HttpsUrl == <<"h", "t", "t", "p", "s", ":", "/", "/", "i">>

\* output_dir as the user may write it: missing, /o, /o/, o, file:///o,
\* file://o, file:/o, s3://b, s3://b/, s3:b, http://o
OutputDirs ==
    {NoneStr, <<"/", "o">>, LocalDir, <<"o">>,
     <<"f", "i", "l", "e", ":", "/", "/", "/", "o">>,
     <<"f", "i", "l", "e", ":", "/", "/", "o">>,
     <<"f", "i", "l", "e", ":", "/", "o">>,
     <<"s", "3", ":", "/", "/", "b">>, <<"s", "3", ":", "/", "/", "b", "/">>,
     <<"s", "3", ":", "b">>, <<"h", "t", "t", "p", ":", "/", "/", "o">>}

RawConfigSet ==
    [kallisto_index : {NoneStr, GoodUrl, LocalUrl, HttpsUrl},
     hera_index : {NoneStr, GoodUrl}, star_index : {NoneStr, GoodUrl, LocalUrl},
     rsem_ref : {NoneStr, GoodUrl}, cutadapt : {FALSE}, fastqc : {TRUE}, bamqc : {FALSE},
     save_bam : {FALSE}, wiggle : {FALSE}, ssec : {NoneStr}, output_dir : OutputDirs,
     ci_test : {FALSE}, rev_3pr_adapter : {Adapter}, maxCores : {sys_maxint}]

MaxManifest == 2

InitMain ==
    /\ pc = "start"
    /\ mainErr = "none"
    /\ config \in RawConfigSet
    /\ \E n \in 1..MaxManifest : samples = [i \in 1..n |-> ItemSample]
    /\ mapStack = <<>>
    /\ lastNode = NoNode
    /\ leaves = <<>>
    /\ TaskInit(Len(samples))
    /\ NamesIdle
    /\ SideIdle
    /\ tarIn = <<>>
    /\ tarOut = <<>>

NextMain ==
    \/ main
    \/ map_job
    \/ \E s \in DOMAIN status : workflow(s)

SpecMain == InitMain /\ [][NextMain]_vars

FileUrlAbs == <<"f", "i", "l", "e", ":", "/", "/", "/">>

\* The configurations C8 calls invalid
InvalidConfig(c) ==
    \/ Truthy(c.star_index) /= Truthy(c.rsem_ref)
    \/ ~(Truthy(c.kallisto_index) \/ Truthy(c.star_index) \/ Truthy(c.hera_index))
    \/ \E x \in {c.kallisto_index, c.star_index, c.rsem_ref, c.hera_index} :
          Truthy(x) /\ urlparse_scheme(x) \notin schemes
    \/ ~Truthy(c.output_dir)
    \/ ~(\/ startswith(c.output_dir, <<"/">>)
         \/ startswith(c.output_dir, FileUrlAbs)
         \/ startswith(c.output_dir, S3Prefix))

\* C8: if exactly one of star_index and rsem_ref is configured, or none of the
\* three indexes, or a configured index URL has an unrecognized scheme, or
\* output_dir is missing or is neither an absolute path, a file:// URL of an
\* absolute path nor an s3:// URL, then configuration_sanity_checks raises
\* UserError and main() starts no Toil job.
InvalidConfigAborts ==
    [][(pc = "start" /\ InvalidConfig(config))
          => (pc' = "aborted" /\ mainErr' = "UserError" /\ mapStack' = <<>>)]_vars

(***************************************************************************)
(* consolidate_output's renaming over arbitrary archives                   *)
(***************************************************************************)
MaxMembers == 2

MemberPaths == {<<"a">>, <<"d", "a">>, <<"b">>}

MemberSeqs == UNION {[1..n -> MemberPaths] : n \in 0..MaxMembers}

TarLabels == {<<"Kallisto">>, <<"RSEM">>, <<"RSEM", "Hugo">>}

InitTar ==
    /\ pc = "consolidating"
    /\ mainErr = "none"
    /\ config \in {c \in ConfigSet : c \in AcquisitionConfigs /\ ~c.cutadapt /\ ~c.fastqc}
    /\ \E u \in {"S1", "S2"} : samples = <<[ItemSample EXCEPT !.uuid = u]>>
    /\ mapStack = <<>>
    /\ lastNode = NoNode
    /\ leaves = <<>>
    /\ TaskInit(0)
    /\ NamesIdle
    /\ SideIdle
    /\ \E f \in [TarLabels -> [present : BOOLEAN, members : MemberSeqs]] :
          /\ \A l \in TarLabels : ~f[l].present => f[l].members = <<>>
          /\ LET labels == SelectSeq(LabelOrder, LAMBDA l : l \in TarLabels /\ f[l].present)
             IN tarIn = [i \in 1..Len(labels) |->
                           [label |-> labels[i], members |-> f[labels[i]].members]]
    /\ tarOut = <<>>

\* jobs.py:66-76: the archives are streamed into the combined archive
consolidate_tars ==
    /\ pc = "consolidating"
    /\ pc' = "consolidated"
    /\ tarOut' = consolidate(samples[1].uuid, tarIn)
    /\ UNCHANGED <<mainErr, config, samples, mapVars, taskVars, tarIn, namesVars, sideVars>>

NextTar == consolidate_tars

SpecTar == InitTar /\ [][NextTar]_vars

DistinctBasenames(members) ==
    \A i, j \in DOMAIN members : i /= j => basename(members[i]) /= basename(members[j])

\* C9: given one result archive per label for sample S, each with pairwise
\* distinct member basenames, every member m of the archive labelled L appears
\* in the combined archive as S/L/basename(m), the combined archive has as many
\* members as all input archives together, and no two of its members share a
\* name.
CombinedArchiveNames ==
    (pc = "consolidated" /\ \A a \in DOMAIN tarIn : DistinctBasenames(tarIn[a].members)) =>
        /\ \A a \in DOMAIN tarIn : \A m \in DOMAIN tarIn[a].members :
              \E k \in DOMAIN tarOut :
                 tarOut[k] = <<samples[1].uuid>> \o tarIn[a].label
                                \o <<tarIn[a].members[m][Len(tarIn[a].members[m])]>>
        /\ Len(tarOut) = Len(Flatten([a \in DOMAIN tarIn |-> tarIn[a].members]))
        /\ \A i, j \in DOMAIN tarOut : i /= j => tarOut[i] /= tarOut[j]

\* Three archives of two members each, one member below a directory, the same
\* basenames in different archives
CombinedArchiveNamesWitness ==
    /\ pc = "consolidated"
    /\ Len(tarIn) = 3
    /\ \A a \in DOMAIN tarIn : tarIn[a].members = << <<"d", "a">>, <<"b">> >>
    /\ Len(tarOut) = 6

(***************************************************************************)
(* A batch of samples under a scheduler that runs every runnable job       *)
(***************************************************************************)
MaxBatch == 3

UuidNames == <<"S1", "S2", "S3", "S4">>

\* The batch is made of paired BAM samples
BatchSamples == {[ItemSample EXCEPT !.file_type = "bam", !.paired = TRUE]}

InitBatch ==
    /\ pc = "started"
    /\ mainErr = "none"
    /\ config \in {c \in ConfigSet : c \in AcquisitionConfigs /\ ~c.cutadapt /\ ~c.fastqc}
    /\ \E f \in [1..MaxBatch -> BatchSamples] :
          samples = [i \in 1..MaxBatch |-> [f[i] EXCEPT !.uuid = UuidNames[i]]]
    /\ mapStack = <<[i \in 1..MaxBatch |-> i]>>
    /\ lastNode = NoNode
    /\ leaves = <<>>
    /\ TaskInit(MaxBatch)
    /\ NamesIdle
    /\ SideIdle
    /\ tarIn = <<>>
    /\ tarOut = <<>>

BatchTaskNext(s) ==
    \/ workflow(s)
    \/ download_and_process_bam(s)
    \/ cleanup_ids(s, "clean_inputs")
    \/ run_kallisto(s)
    \/ consolidate_output(s)
    \/ \E t \in {"inputs", "kallisto"} : tool_fails(s, t)

NextBatch ==
    \/ map_job
    \/ \E s \in DOMAIN status : BatchTaskNext(s)

\* The scheduler leaves no runnable job waiting forever: the batch fan-out, and
\* the jobs of every sample.
SpecBatch ==
    /\ InitBatch
    /\ [][NextBatch]_vars
    /\ WF_vars(map_job)
    /\ \A s \in 1..MaxBatch : WF_vars(BatchTaskNext(s))

Failures == {"tool_failed", "user_error", "exception", "missing_file"}

SampleFailed(s) == \E t \in Tasks : status[s][t] \in Failures

\* C3: in a run of several samples spawned by map_job, a failed task disables
\* only tasks of its own sample: every sample whose own tasks all succeed
\* eventually runs its consolidate_output and delivers its archive, whatever
\* happens to the other samples.
FailureIsolation ==
    \A s \in 1..MaxBatch :
        <>(SampleFailed(s) \/ (status[s]["consolidate"] = "ok" /\ delivered[s] /= NoArchive))

\* Sample 2 has failed, samples 1 and 3 are consolidated and delivered
FailureIsolationWitness ==
    /\ SampleFailed(2)
    /\ \A s \in {1, 3} :
          /\ ~SampleFailed(s)
          /\ status[s]["consolidate"] = "ok"
          /\ delivered[s].name = <<samples[s].uuid, ".tar.gz">>

(***************************************************************************)
(* What is left in the store when a sample's workflow has finished         *)
(***************************************************************************)
\* The result archives of the branches, as consolidate_output receives them
ResultTars == {"fastqc_tar", "kallisto_tar", "hera_tar", "star_tar", "bamqc_tar",
               "rsem_tar", "hugo_tar"}

\* Every job of the sample's graph has run and none failed
Finished(s) ==
    /\ status[s]["workflow"] = "ok"
    /\ \A t \in Tasks : status[s][t] \in {"absent", "ok"}

\* C11: once consolidate_output has delivered the archive of a sample and the
\* sample's workflow has finished, none of the consolidated branch result
\* archives (FastQC, Kallisto, Hera, STAR log, BamQC, RSEM, RSEM/Hugo) is
\* left in the store.
ResultsDeletedAfterDelivery ==
    \A s \in DOMAIN status :
        (Finished(s) /\ delivered[s] /= NoArchive) => store[s] \cap ResultTars = {}

\* C12: when a sample's workflow has completed successfully, every artifact it
\* created that is not one of the delivered results (downloads, converted or
\* merged reads, trimmed reads, STAR's BAMs and wiggle, RSEM's result files)
\* has been deleted from the store.
IntermediatesDeleted ==
    \A s \in DOMAIN status : Finished(s) => store[s] \subseteq ResultTars

(***************************************************************************)
(* Runs with ci_test set                                                   *)
(***************************************************************************)
\* Every branch wired, with and without trimming, BamQC and the saved BAM
CiConfigSet ==
    {[c EXCEPT !.ci_test = TRUE] :
        c \in {x \in ConfigSet : /\ x.fastqc /\ WantsKallisto(x) /\ WantsHera(x)
                                 /\ WantsStar(x) /\ x.wiggle}}

InitCi ==
    /\ pc = "started"
    /\ mainErr = "none"
    /\ \E d \in RepresentativeSamples, c \in CiConfigSet :
          /\ config = c
          /\ samples = <<d>>
    /\ mapStack = << <<1>> >>
    /\ lastNode = NoNode
    /\ leaves = <<>>
    /\ TaskInit(1)
    /\ NamesIdle
    /\ SideIdle
    /\ tarIn = <<>>
    /\ tarOut = <<>>

\* The jobs of a sample that never fail in their tools
CiTaskNext(s) ==
    \/ workflow(s)
    \/ download_and_process_tar(s)
    \/ download_and_process_fastqs(s)
    \/ download_and_process_bam(s)
    \/ multiple_fastq_dowloading(s)
    \/ \E t \in DlTasks \cup {"download"} : download_url_job(s, t)
    \/ process_sample(s)
    \/ \E t \in CleanupTasks : cleanup_ids(s, t)
    \/ run_cutadapt(s)
    \/ run_fastqc(s)
    \/ run_kallisto(s)
    \/ run_hera(s)
    \/ run_star(s)
    \/ run_bam_qc(s)
    \/ sort_and_save_bam(s)
    \/ save_wiggle(s)
    \/ run_rsem(s)
    \/ run_rsem_gene_mapping(s)
    \/ consolidate_output(s)

NextCi ==
    \/ map_job
    \/ \E s \in DOMAIN status : CiTaskNext(s)

SpecCi == InitCi /\ [][NextCi]_vars

\* The tasks of the per-sample graph that do the work
HintedTasks ==
    {"download", "process", "fastqc", "kallisto", "hera", "star", "bamqc", "rsem",
     "save_bam", "save_wiggle"} \cup DlTasks

\* C13: when ci_test is set, no task of the per-sample graph (download,
\* process_sample, FastQC, Kallisto, Hera, STAR, BamQC, RSEM, the save tasks)
\* has a disk requirement that is a promise over artifact sizes, every disk
\* size given is the 2G of the CI floor, and no memory requirement is the
\* production one.
CiHintsFixed ==
    \A s \in DOMAIN status : \A t \in HintedTasks :
        (config.ci_test /\ Present(s, t)) =>
            /\ hint[s][t].disk.kind /= "promise"
            /\ hint[s][t].disk.kind = "fixed" => hint[s][t].disk.size = "2G"
            /\ hint[s][t].memory /= "40G"

(***************************************************************************)
(* cleanup_ids                                                             *)
(***************************************************************************)
\* C14: a cleanup_ids job that runs ends without raising; it has issued one
\* deletion for each entry of its list that is not None and none for None, and
\* the store loses exactly the ids it held among them: an id deleted before, or
\* never created, leaves the store as it was.
CleanupToleratesNone ==
    [][\A s \in DOMAIN status : \A t \in CleanupTasks :
          (status[s][t] = "pending" /\ status'[s][t] /= "pending") =>
              LET asked == {CleanupArgs(s, t)[i] : i \in DOMAIN CleanupArgs(s, t)}
              IN /\ status'[s][t] = "ok"
                 /\ removed'[s][t] = {x \in asked : x /= "None"}
                 /\ store'[s] = {x \in store[s] : x \notin asked}
                 /\ (asked \cap store[s] = {}) => store'[s] = store[s]]_vars

\* The STAR cleanup has run on a list holding None (no wiggle) and the id of
\* the aligned BAM, which BamQC had deleted already.
CleanupToleratesNoneWitness ==
    \E s \in DOMAIN status :
        /\ status[s]["clean_star"] = "ok"
        /\ status[s]["bamqc"] = "ok"
        /\ Arg(rv[s]["star"], 4) = None
        /\ "aligned" \in removed[s]["bamqc"] \cap removed[s]["clean_star"]

(***************************************************************************)
(* Paired samples whose files do not pair up                               *)
(***************************************************************************)
\* C15: when process_sample has gone through the files of a paired tarball
\* that holds a misnamed member or an odd number of files, it has raised
\* UserError (naming the misnamed member when there is one); it wrote nothing,
\* the merged and the trimmed pair never reach the store, neither the cleanup
\* of the raw input nor the trim task was added, and nothing of the sample is
\* delivered.
PairingErrorStopsSample ==
    \A s \in DOMAIN status :
        ( /\ IsTar(s) /\ samples[s].paired
          /\ ~samples[s].named \/ samples[s].nfiles % 2 = 1
          /\ status[s]["process"] \notin {"absent", "pending", "missing_file", "tool_failed"} )
        => /\ status[s]["process"] = "user_error"
           /\ ~samples[s].named =>
                 pair_up(FilesOf(samples[s])).offending = Misnamed(samples[s].gz)
           /\ wrote[s]["process"] = {}
           /\ store[s] \cap {"R1", "R2", "R1_cut", "R2_cut"} = {}
           /\ status[s]["clean_raw"] = "absent" /\ removed[s]["clean_raw"] = {}
           /\ status[s]["cutadapt"] = "absent"
           /\ status[s]["consolidate"] \in {"absent", "pending"}
           /\ delivered[s] = NoArchive

\* process_sample has raised on a tarball of four files, the last one misnamed,
\* in a run that asks for trimming
PairingErrorStopsSampleWitness ==
    \E s \in DOMAIN status :
        /\ IsTar(s) /\ samples[s].paired
        /\ status[s]["process"] = "user_error"
        /\ ~samples[s].named /\ samples[s].nfiles = 4 /\ config.cutadapt

(***************************************************************************)
(* Pairing the files of a sample by name                                   *)
(***************************************************************************)
MaxPairs == 6

MaxListed == 3

\* Names as they come in tarballs
NamePool ==
    {TarMember(1, FALSE), TarMember(2, FALSE), Misnamed(FALSE),
     <<"a", "_", "1", ".", "f", "q">>, <<"a", "_", "2", ".", "f", "q">>,
     <<"R", "2", ".", "f", "q">>}

\* The work directory holds the downloads of k URL pairs, or up to MaxListed
\* distinct members of a tarball, in the order os.walk lists them
NameLists ==
    {FastqNames(2 * k, gz) : k \in 1..MaxPairs, gz \in BOOLEAN}
    \cup UNION {{l \in [1..n -> NamePool] : \A i, j \in 1..n : l[i] = l[j] => i = j} :
                n \in 1..MaxListed}

InitNames ==
    /\ pc = "listed"
    /\ mainErr = "none"
    /\ config = CHOOSE c \in ConfigSet : TRUE
    /\ samples = <<>>
    /\ mapStack = <<>>
    /\ lastNode = NoNode
    /\ leaves = <<>>
    /\ TaskInit(0)
    /\ tarIn = <<>>
    /\ tarOut = <<>>
    /\ files \in NameLists
    /\ merged = NoMerge
    /\ SideIdle

\* process_sample, paired: lines 159-173
pair_reads ==
    /\ pc = "listed"
    /\ merged' = pair_up(files)
    /\ pc' = "paired_up"
    /\ UNCHANGED <<mainErr, config, samples, mapVars, taskVars, tarVars, files, sideVars>>

NextNames == pair_reads

SpecNames == InitNames /\ [][NextNames]_vars

\* C16: for the downloads of 2k URLs alternating read 1, read 2 (k >= 1),
\* process_sample takes the files at even positions (from 0) as read 1 and
\* those at odd positions as read 2, and for every j the j-th read-1 file and
\* the j-th read-2 file it concatenates come from adjacent URLs 2i and 2i+1.
MatesStayTogether ==
    \A k \in 1..MaxPairs, gz \in BOOLEAN :
        (pc = "paired_up" /\ files = FastqNames(2 * k, gz)) =>
            /\ merged.err = "none"
            /\ {merged.r1[j] : j \in 1..Len(merged.r1)} = {files[2 * i - 1] : i \in 1..k}
            /\ {merged.r2[j] : j \in 1..Len(merged.r2)} = {files[2 * i] : i \in 1..k}
            /\ \A j \in 1..k : \E i \in 1..k :
                  merged.r1[j] = files[2 * i - 1] /\ merged.r2[j] = files[2 * i]

(***************************************************************************)
(* The configuration handed to the workflows                               *)
(***************************************************************************)
SampleFields == {"file_type", "paired", "uuid", "url", "cores", "gz"}

\* C17: no step changes the base configuration handed to map_job; the
\* configuration of a sample changes only when that sample's workflow() runs,
\* which gives it the base configuration plus the sample's own fields, and
\* that step leaves the configurations of the other samples as they were.
OwnCopyOnly ==
    [][/\ config' = config
       /\ \A s \in DOMAIN cfg :
             cfg'[s] /= cfg[s] =>
                /\ cfg[s] = NoCfg
                /\ status[s]["workflow"] = "pending" /\ status'[s]["workflow"] = "ok"
                /\ cfg'[s].uuid = samples[s].uuid
                /\ cfg'[s].file_type = samples[s].file_type
                /\ cfg'[s].paired = samples[s].paired
                /\ \A f \in DOMAIN config : cfg'[s][f] = config[f]
                /\ \A o \in DOMAIN cfg \ {s} : cfg'[o] = cfg[o]]_vars

\* The workflows of two samples have both written their fields, and the base
\* configuration has none of them
OwnCopyOnlyWitness ==
    \E s, o \in DOMAIN cfg :
        /\ cfg[s] /= NoCfg /\ cfg[o] /= NoCfg
        /\ cfg[s].uuid /= cfg[o].uuid
        /\ DOMAIN config \cap SampleFields = {}

(***************************************************************************)
(* Saving read-level data to S3                                            *)
(***************************************************************************)
S3Dir == <<"s", "3", ":", "/", "/", "b", "/", "d">>

KeyPath == <<"/", "k">>

\* The alignment branch alone, with every choice of BamQC, saved BAM and
\* wiggle, to a local directory or to S3, with and without an SSE-C key
S3ConfigSet ==
    {[c EXCEPT !.output_dir = o, !.ssec = k] :
        c \in {x \in ConfigSet : /\ WantsStar(x) /\ ~x.fastqc /\ ~x.cutadapt
                                 /\ ~WantsKallisto(x) /\ ~WantsHera(x)},
        o \in {LocalDir, S3Dir}, k \in {NoneStr, KeyPath}}

InitS3 ==
    /\ pc = "started"
    /\ mainErr = "none"
    /\ config \in S3ConfigSet
    /\ samples = <<CHOOSE d \in RepresentativeSamples : d.file_type = "bam">>
    /\ mapStack = << <<1>> >>
    /\ lastNode = NoNode
    /\ leaves = <<>>
    /\ TaskInit(1)
    /\ NamesIdle
    /\ SideIdle
    /\ tarIn = <<>>
    /\ tarOut = <<>>

S3TaskNext(s) ==
    \/ workflow(s)
    \/ download_and_process_bam(s)
    \/ \E t \in CleanupTasks : cleanup_ids(s, t)
    \/ run_star(s)
    \/ run_bam_qc(s)
    \/ sort_and_save_bam(s)
    \/ save_wiggle(s)
    \/ run_rsem(s)
    \/ run_rsem_gene_mapping(s)
    \/ consolidate_output(s)

NextS3 ==
    \/ map_job
    \/ \E s \in DOMAIN status : S3TaskNext(s)

SpecS3 == InitS3 /\ [][NextS3]_vars

ToS3 == urlparse_scheme(config.output_dir) = <<"s", "3">>

\* C18: a genome-aligned BAM is uploaded to S3 only under a configured SSE-C
\* key, which is the key given to the upload; with save_bam set, an s3://
\* output_dir and no key, no BAM is ever saved: sort_and_save_bam, when it has
\* run, has raised UserError, and the BamQC job ends without uploading.
BamUploadNeedsKey ==
    \A s \in DOMAIN status :
        /\ \A u \in saved[s] :
              (u.what = "bam" /\ u.how = "uploaded") =>
                  config.save_bam /\ config.ssec /= <<>> /\ u.key = config.ssec
        /\ (config.save_bam /\ ToS3 /\ config.ssec = <<>>) =>
              /\ \A u \in saved[s] : u.what /= "bam"
              /\ status[s]["save_bam"] \in {"absent", "pending", "user_error"}
              /\ status[s]["bamqc"] \in {"absent", "pending", "ok"}

\* With an s3:// output_dir and no key, sort_and_save_bam has raised UserError
BamUploadNeedsKeyWitness ==
    \E s \in DOMAIN status :
        /\ config.save_bam /\ ToS3 /\ config.ssec = <<>>
        /\ status[s]["save_bam"] = "user_error"

(***************************************************************************)
(* Promised disk requirements                                              *)
(***************************************************************************)
\* The task whose return value the promise of h waits for has completed
Produced(s, h) ==
    IF h.of = "inputs" \/ (h.of = "download" /\ IsFq(s))
       THEN InnerDone(s, h.of)
       ELSE status[s][h.of] = "ok"

\* The values whose .size the lambda of the promise h reads: the whole return
\* value (the entries that are not None, where the lambda says 'if x'), or one
\* position of it
SizedBy(s, h) ==
    LET ret == IF h.of = "inputs" THEN InputsRv(s)
               ELSE IF h.of = "download" /\ IsFq(s) THEN fastq_ids(s)
               ELSE rv[s][h.of]
    IN IF h.arg /= 0 THEN {Arg(ret, h.arg)}
       ELSE IF h.of = "inputs" THEN {ret[i] : i \in DOMAIN ret} \ {"None"}
       ELSE {ret[i] : i \in DOMAIN ret}

\* C19: whenever a task whose disk requirement is a promise over another
\* task's return value is runnable, the producing task has completed and every
\* value whose size the promise reads is a real artifact id (resolved, not
\* None) that is in the store.
PromisesResolve ==
    \A s \in DOMAIN status : \A t \in Tasks :
        (Ready(s, t) /\ hint[s][t].disk.kind = "promise") =>
            /\ Produced(s, hint[s][t].disk)
            /\ SizedBy(s, hint[s][t].disk) /= {}
            /\ "None" \notin SizedBy(s, hint[s][t].disk)
            /\ "unresolved" \notin SizedBy(s, hint[s][t].disk)
            /\ SizedBy(s, hint[s][t].disk) \subseteq store[s]

\* BamQC, RSEM and FastQC are runnable at once, each with a promised disk
PromisesResolveWitness ==
    \E s \in DOMAIN status :
        \A t \in {"bamqc", "rsem", "fastqc"} :
            Ready(s, t) /\ hint[s][t].disk.kind = "promise"

(***************************************************************************)
(* Trimming with and without a reverse adapter                             *)
(***************************************************************************)
\* Trimming on, with and without rev_3pr_adapter, before Kallisto alone
TrimConfigSet ==
    {[c EXCEPT !.rev_3pr_adapter = a] :
        c \in {x \in AcquisitionConfigs : x.cutadapt}, a \in {NoneStr, Adapter}}

InitTrim ==
    /\ pc = "started"
    /\ mainErr = "none"
    /\ config \in TrimConfigSet
    /\ \E d \in SampleSet : samples = <<d>>
    /\ mapStack = << <<1>> >>
    /\ lastNode = NoNode
    /\ leaves = <<>>
    /\ TaskInit(1)
    /\ NamesIdle
    /\ SideIdle
    /\ tarIn = <<>>
    /\ tarOut = <<>>

TrimTaskNext(s) ==
    \/ workflow(s)
    \/ download_and_process_tar(s)
    \/ download_and_process_fastqs(s)
    \/ download_and_process_bam(s)
    \/ multiple_fastq_dowloading(s)
    \/ \E t \in DlTasks \cup {"download"} : download_url_job(s, t)
    \/ process_sample(s)
    \/ \E t \in {"clean_raw", "clean_inputs"} : cleanup_ids(s, t)
    \/ run_cutadapt(s)
    \/ run_fastqc(s)
    \/ run_kallisto(s)
    \/ consolidate_output(s)
    \/ \E t \in Tasks : tool_fails(s, t)

NextTrim ==
    \/ map_job
    \/ \E s \in DOMAIN status : TrimTaskNext(s)

SpecTrim == InitTrim /\ [][NextTrim]_vars

\* C20: when run_cutadapt has been handed a read-2 artifact with its read-1
\* artifact in the store and no rev_3pr_adapter is configured, it has raised
\* UserError (it did not fail in the tool) and no trimmed artifact was written
\* to the store.
TrimNeedsRevAdapter ==
    \A s \in DOMAIN status :
        ( /\ status[s]["cutadapt"] \notin {"absent", "pending", "missing_file"}
          /\ Arg(CutadaptArgs(s), 2) /= "None"
          /\ config.rev_3pr_adapter = <<>> )
        => /\ status[s]["cutadapt"] = "user_error"
           /\ wrote[s]["cutadapt"] = {}
           /\ store[s] \cap {"R1_cut", "R2_cut"} = {}

\* run_cutadapt was given the merged pair of a tarball and no reverse adapter
TrimNeedsRevAdapterWitness ==
    \E s \in DOMAIN status :
        /\ IsTar(s) /\ samples[s].paired
        /\ config.rev_3pr_adapter = <<>>
        /\ Arg(CutadaptArgs(s), 2) = "R2"
        /\ status[s]["cutadapt"] = "user_error"

(***************************************************************************)
(* BAM samples with and without paired reads                               *)
(***************************************************************************)
MaxReads == 2

\* BAM samples with 0..MaxReads paired reads counted under each naming
BamSampleSet ==
    {[d EXCEPT !.reads = r] :
        d \in {x \in SampleSet : x.file_type = "bam"},
        r \in [chr6 : 0..MaxReads, six : 0..MaxReads]}

InitBam ==
    /\ pc = "started"
    /\ mainErr = "none"
    /\ config \in AcquisitionConfigs
    /\ \E d \in BamSampleSet : samples = <<d>>
    /\ mapStack = << <<1>> >>
    /\ lastNode = NoNode
    /\ leaves = <<>>
    /\ TaskInit(1)
    /\ NamesIdle
    /\ SideIdle
    /\ tarIn = <<>>
    /\ tarOut = <<>>

BamTaskNext(s) ==
    \/ workflow(s)
    \/ download_and_process_bam(s)
    \/ cleanup_ids(s, "clean_inputs")
    \/ run_cutadapt(s)
    \/ run_fastqc(s)
    \/ run_kallisto(s)
    \/ consolidate_output(s)
    \/ \E t \in Tasks : tool_fails(s, t)

NextBam ==
    \/ map_job
    \/ \E s \in DOMAIN status : BamTaskNext(s)

SpecBam == InitBam /\ [][NextBam]_vars

\* C21: when the job of a BAM sample has got through its tools, it has failed
\* exactly if the paired reads counted under 'chr6' and under '6' are both
\* zero; after that failure no read artifact was written, none is in the
\* store and no trim task was added; otherwise both reads were written.
UnpairedBamFails ==
    \A s \in DOMAIN status :
        (IsBam(s) /\ status[s]["inputs"] \notin {"absent", "pending", "tool_failed"}) =>
            /\ status[s]["inputs"] = "exception"
                  <=> (samples[s].reads.chr6 = 0 /\ samples[s].reads.six = 0)
            /\ status[s]["inputs"] = "exception" =>
                  /\ wrote[s]["inputs"] = {} /\ rv[s]["inputs"] = <<>>
                  /\ store[s] = {}
                  /\ status[s]["cutadapt"] = "absent"
            /\ status[s]["inputs"] /= "exception" =>
                  /\ status[s]["inputs"] = "ok"
                  /\ wrote[s]["inputs"] = {"bam_R1", "bam_R2"}

\* Both outcomes of the check: a BAM without paired reads under either naming
\* has failed, or a BAM with paired reads under '6' alone was converted
UnpairedBamFailsWitness ==
    \E s \in DOMAIN status :
        /\ samples[s].reads.chr6 = 0 /\ samples[s].reads.six > 0
        /\ status[s]["inputs"] = "ok"

(***************************************************************************)
(* map_job run to its end, over lists that are and are not split           *)
(***************************************************************************)
MaxSplit == 320

\* The lists map_job does not split (up to one item, and just below twice
\* num_partitions) and those it splits into chunks of two and three items
SplitLengths == (0..1) \cup ((2 * num_partitions - 2)..MaxSplit)

InitFair ==
    /\ pc = "started"
    /\ mainErr = "none"
    /\ config \in {c \in ConfigSet : c \in AcquisitionConfigs /\ ~c.cutadapt /\ ~c.fastqc}
    /\ \E n \in SplitLengths : samples = [i \in 1..n |-> ItemSample]
    /\ mapStack = <<[i \in 1..Len(samples) |-> i]>>
    /\ lastNode = NoNode
    /\ leaves = <<>>
    /\ TaskInit(0)
    /\ NamesIdle
    /\ SideIdle
    /\ tarIn = <<>>
    /\ tarOut = <<>>

NextFair == map_job

\* Every map_job node that was added is run
SpecFair == InitFair /\ [][NextFair]_vars /\ WF_vars(map_job)

\* C22: every chunk a map_job node hands to a child map_job node is strictly
\* shorter than the node's own list, and the recursion comes to an end: at some
\* point no map_job node is left to run.
MapJobTerminates ==
    /\ [](~lastNode.leaf =>
            \A k \in DOMAIN lastNode.kids : Len(lastNode.kids[k]) < Len(lastNode.inputs))
    /\ <>(mapStack = <<>>)

\* A list that was split into chunks of three has been run to its last leaf job
MapJobTerminatesWitness ==
    /\ Len(samples) = 3 * num_partitions + 1
    /\ mapStack = <<>>
    /\ lastNode.leaf /\ Len(lastNode.inputs) = 1
    /\ Len(leaves) = Len(samples)

(***************************************************************************)
(* Which task saves the genome-aligned BAM                                 *)
(***************************************************************************)
BamSaved(s) == \E u \in saved[s] : u.what = "bam"

\* C23: with save_bam set, once the task in charge of the aligned BAM has
\* completed the BAM is in the output destination, and that task is the only
\* one of the sample's graph that saves it: the BamQC task if bamqc is
\* enabled (no sort_and_save_bam task exists then), otherwise
\* sort_and_save_bam (no BamQC task exists then); with save_bam unset no BAM
\* is ever saved.
OneTaskSavesBam ==
    \A s \in DOMAIN status :
        /\ (config.save_bam /\ config.bamqc /\ status[s]["bamqc"] = "ok") =>
              BamSaved(s) /\ status[s]["save_bam"] = "absent"
        /\ (config.save_bam /\ ~config.bamqc /\ status[s]["save_bam"] = "ok") =>
              BamSaved(s) /\ status[s]["bamqc"] = "absent"
        /\ ~config.save_bam => ~BamSaved(s)


\* The output destination takes a BAM: a local directory, or S3 with an SSE-C
\* key configured
TakesBam == ToS3 => config.ssec /= <<>>

\* C23, amended: what C23 states holds when the output destination is a local
\* directory or S3 with an SSE-C key configured; to S3 without a key no task
\* saves a BAM; and whenever a BAM was saved, the task that saved it is the
\* BamQC task if bamqc is enabled and sort_and_save_bam otherwise, the other
\* of the two not being part of the graph.
OneTaskSavesBamWhereTaken ==
    \A s \in DOMAIN status :
        /\ TakesBam =>
              /\ (config.save_bam /\ config.bamqc /\ status[s]["bamqc"] = "ok") =>
                    BamSaved(s) /\ status[s]["save_bam"] = "absent"
              /\ (config.save_bam /\ ~config.bamqc /\ status[s]["save_bam"] = "ok") =>
                    BamSaved(s) /\ status[s]["bamqc"] = "absent"
        /\ (~config.save_bam \/ ~TakesBam) => ~BamSaved(s)
        /\ BamSaved(s) =>
              IF config.bamqc
                 THEN status[s]["bamqc"] = "ok" /\ status[s]["save_bam"] = "absent"
                 ELSE status[s]["save_bam"] = "ok" /\ status[s]["bamqc"] = "absent"

\* The BamQC task has uploaded the BAM to S3 under the key, in a graph without
\* sort_and_save_bam
OneTaskSavesBamWitness ==
    \E s \in DOMAIN status :
        /\ config.save_bam /\ config.bamqc /\ ToS3 /\ config.ssec /= <<>>
        /\ status[s]["bamqc"] = "ok"
        /\ \E u \in saved[s] : u.what = "bam" /\ u.how = "uploaded"

(***************************************************************************)
(* The memory of the STAR job and the RAM STAR may use for sorting         *)
(***************************************************************************)
\* Byte counts beyond 2^31 are kept exactly, as hi * 2^20 + lo with lo < 2^20
Limb == 2^20

IsDigit(ch) == ch \in Digits

digit(ch) == CHOOSE d \in 0..9 : str(d) = <<ch>>

\* 10 * n + d
shift_in(n, d) ==
    LET lo == n.lo * 10 + d
    IN [hi |-> n.hi * 10 + lo \div Limb, lo |-> lo % Limb]

\* int(s) for a string of decimal digits
RECURSIVE int_from(_, _)
int_from(s, acc) ==
    IF s = <<>> THEN acc ELSE int_from(Tail(s), shift_in(acc, digit(Head(s))))

int(s) == int_from(s, [hi |-> 0, lo |-> 0])

\* n << 10 * i
RECURSIVE shl10(_, _)
shl10(n, i) ==
    IF i = 0 THEN n
    ELSE LET lo == n.lo * 1024
         IN shl10([hi |-> n.hi * 1024 + lo \div Limb, lo |-> lo % Limb], i - 1)

Symbols == <<"B", "K", "M", "G", "T">>

RECURSIVE leading_digits(_)
leading_digits(s) ==
    IF s /= <<>> /\ IsDigit(Head(s)) THEN 1 + leading_digits(Tail(s)) ELSE 0

\* What Toil makes of memory='40G': the number times 1 << 10 * i for the i-th
\* of the symbols B, K, M, G, T
human2bytes(s) ==
    LET k == leading_digits(s)
        letter == SubSeq(s, k + 1, Len(s))
        i == CHOOSE j \in DOMAIN Symbols : <<Symbols[j]>> = letter
    IN shl10(int(SubSeq(s, 1, k)), i - 1)

geq(a, b) == a.hi > b.hi \/ (a.hi = b.hi /\ a.lo >= b.lo)

\* The characters of the memory= argument of a job
memory_arg(m) == CASE m = "40G" -> <<"4", "0", "G">> [] m = "2G" -> <<"2", "G">>

\* aligners.py:54  '--limitBAMsortRAM', '49268954168'
limitBAMsortRAM == <<"4", "9", "2", "6", "8", "9", "5", "4", "1", "6", "8">>

\* toil_rnaseq.py:110  sort = True if config.wiggle else False
sort(c) == c.wiggle

\* C24: whenever the STAR job of a sample is created with sort set (wiggle is
\* configured), the memory it requests is at least the 49268954168 bytes that
\* run_star lets STAR use for sorting the BAM.
StarMemoryCoversSortRAM ==
    \A s \in DOMAIN status :
        (status[s]["star"] /= "absent" /\ sort(config)) =>
            geq(human2bytes(memory_arg(hint[s]["star"].memory)), int(limitBAMsortRAM))

(***************************************************************************)
(* _s3am_with_retry                                                        *)
(***************************************************************************)
MaxSlots == 2

MaxCode == 2

\* urls.py:83  retry_count = 3
retry_count == 3

\* list.insert(i, x)
insert(l, i, x) == SubSeq(l, 1, i) \o <<x>> \o SubSeq(l, i + 1, Len(l))

\* for arg in args: command.insert(2, arg)
RECURSIVE insert_each(_, _)
insert_each(cmd, args) ==
    IF args = <<>> THEN cmd
    ELSE insert_each(insert(cmd, 2, Head(args)), Tail(args))

\* The calls of _s3am_with_retry: a mode, with or without an SSE-C key
S3amArgs ==
    [mode : {"upload", "download", "sync"}, s3_key_path : {NoneStr, KeyPath},
     num_cores : 1..MaxSlots]

\* Variant, for comparison: any mode is taken for a download
any_mode(mode) == TRUE

\* urls.py:68-75  mode == 'upload' ... elif mode == 'download' ... else: raise
known_mode(mode) == mode \in {"upload", "download"}

\* urls.py:67-81: the command line, or ValueError before anything is run
build_command(a) ==
    LET base == IF a.mode = "upload"
                   THEN <<"s3am", "upload", "--force", "--upload-slots={num_cores}",
                          "--exists=overwrite", "file://{file_path}", "{s3_url}">>
                   ELSE <<"s3am", "download", "--file-exists=overwrite",
                          "--download-exists=discard", "{s3_url}", "file://{file_path}">>
        keyed == IF Truthy(a.s3_key_path)
                    THEN insert_each(base, <<"{s3_key_path}", "--sse-key-file",
                                             "--sse-key-is-master">>)
                    ELSE base
    IN insert_each(keyed, <<"--part-size=50M", "--download-slots={num_cores}">>)

InitS3am ==
    /\ pc = "started"
    /\ mainErr = "none"
    /\ config \in {c \in ConfigSet : c \in AcquisitionConfigs /\ ~c.cutadapt /\ ~c.fastqc}
    /\ samples = <<>>
    /\ mapStack = <<>>
    /\ lastNode = NoNode
    /\ leaves = <<>>
    /\ TaskInit(0)
    /\ NamesIdle
    /\ wrapper = NoWrapper
    /\ \E a \in S3amArgs : s3am = [NoCall EXCEPT !.args = a]
    /\ tarIn = <<>>
    /\ tarOut = <<>>

\* The function is entered: the command is put together
s3am_command ==
    /\ s3am.outcome = "idle"
    /\ s3am' = IF known_mode(s3am.args.mode)
                  THEN [s3am EXCEPT !.command = build_command(s3am.args),
                                    !.outcome = "running"]
                  ELSE [s3am EXCEPT !.outcome = "ValueError"]
    /\ UNCHANGED <<pc, mainErr, config, samples, mapVars, taskVars, tarVars, namesVars, wrapper>>

\* One pass of 'for i in xrange(retry_count)': s3am runs and exits with some
\* code; after the last pass that found a non-zero code RuntimeError is raised
s3am_call ==
    /\ s3am.outcome = "running"
    /\ Len(s3am.codes) < retry_count
    /\ \E ret_code \in 0..MaxCode :
          LET codes == Append(s3am.codes, ret_code)
          IN s3am' = [s3am EXCEPT !.codes = codes,
                                  !.outcome = IF ret_code = 0 THEN "returned"
                                              ELSE IF Len(codes) = retry_count
                                                 THEN "RuntimeError"
                                              ELSE "running"]
    /\ UNCHANGED <<pc, mainErr, config, samples, mapVars, taskVars, tarVars, namesVars, wrapper>>

NextS3am ==
    \/ s3am_command
    \/ s3am_call

SpecS3am == InitS3am /\ [][NextS3am]_vars

\* C25: s3am is invoked at most 3 times; the call returns normally exactly
\* when the latest invocation exited 0, and no invocation before it did;
\* RuntimeError is raised exactly when 3 invocations have exited non-zero;
\* until one of the two, fewer than 3 invocations have all exited non-zero;
\* and a mode other than 'upload' or 'download' raises ValueError with no
\* invocation at all, while the two modes never do.
ThreeTriesThenRuntimeError ==
    LET codes == s3am.codes
        n == Len(codes)
    IN /\ n <= 3
       /\ \A i \in 1..(n - 1) : codes[i] /= 0
       /\ s3am.outcome = "returned" <=> (n >= 1 /\ codes[n] = 0)
       /\ s3am.outcome = "RuntimeError" <=> (n = 3 /\ \A i \in 1..3 : codes[i] /= 0)
       /\ s3am.outcome = "running" => n < 3
       /\ s3am.outcome = "ValueError" <=>
             (s3am.args.mode \notin {"upload", "download"} /\ s3am.outcome /= "idle")
       /\ s3am.args.mode \notin {"upload", "download"} => n = 0 /\ s3am.command = <<>>

\* All three invocations of an upload exited non-zero and RuntimeError was raised
ThreeTriesThenRuntimeErrorWitness ==
    /\ s3am.args.mode = "upload"
    /\ Len(s3am.codes) = 3
    /\ s3am.outcome = "RuntimeError"

(***************************************************************************)
(* A failed sample delivers nothing                                        *)
(***************************************************************************)
\* A job of sample s other than consolidate_output has raised
FailedTasks(s) ==
    {t \in Tasks \ {"consolidate"} : status[s][t] \notin {"absent", "pending", "ok"}}

\* C26: once any job of a sample's graph other than consolidate_output itself
\* has failed, consolidate_output of that sample has not run and does not run,
\* and no combined archive of the sample is in the output destination.
NoArchiveForFailedSample ==
    \A s \in DOMAIN status :
        FailedTasks(s) /= {} =>
            /\ status[s]["consolidate"] = "pending"
            /\ delivered[s] = NoArchive

\* The RSEM job, at the end of the alignment branch, has failed after every
\* other branch has completed, and no job of the sample is left that can run
NoArchiveForFailedSampleWitness ==
    \E s \in DOMAIN status :
        /\ FailedTasks(s) = {"rsem"}
        /\ status[s]["kallisto"] = "ok"
        /\ \A t \in Tasks : ~Ready(s, t)

(***************************************************************************)
(* Pairedness, as each tool of a sample is told                            *)
(***************************************************************************)
\* Every file type with both pairings, all four tools configured
PairConfigSet ==
    {c \in ConfigSet : /\ WantsStar(c) /\ WantsKallisto(c) /\ WantsHera(c)
                       /\ ~c.fastqc /\ ~c.bamqc /\ ~c.save_bam /\ ~c.wiggle}

PairSampleSet ==
    {d \in SampleSet :
        /\ d.named /\ (d.gz <=> d.file_type = "tar")
        /\ d.nfiles = IF d.paired /\ d.file_type /= "bam" THEN 2 ELSE 1}

InitPair ==
    /\ pc = "started"
    /\ mainErr = "none"
    /\ config \in PairConfigSet
    /\ \E d \in PairSampleSet : samples = <<d>>
    /\ mapStack = << <<1>> >>
    /\ lastNode = NoNode
    /\ leaves = <<>>
    /\ TaskInit(1)
    /\ NamesIdle
    /\ SideIdle
    /\ tarIn = <<>>
    /\ tarOut = <<>>

PairTaskNext(s) ==
    \/ workflow(s)
    \/ download_and_process_tar(s)
    \/ download_and_process_fastqs(s)
    \/ download_and_process_bam(s)
    \/ multiple_fastq_dowloading(s)
    \/ \E t \in DlTasks \cup {"download"} : download_url_job(s, t)
    \/ process_sample(s)
    \/ \E t \in CleanupTasks : cleanup_ids(s, t)
    \/ run_cutadapt(s)
    \/ run_kallisto(s)
    \/ run_hera(s)
    \/ run_star(s)
    \/ run_rsem(s)
    \/ run_rsem_gene_mapping(s)
    \/ consolidate_output(s)

NextPair ==
    \/ map_job
    \/ \E s \in DOMAIN status : PairTaskNext(s)

SpecPair == InitPair /\ [][NextPair]_vars

\* aligners.py:64-69  the reads STAR is given: both when r1_id and r2_id
readFilesIn(r1_id, r2_id) ==
    IF r1_id /= None /\ r2_id /= None THEN <<"/data/R1.fastq", "/data/R2.fastq">>
    ELSE <<"/data/R1.fastq">>

\* quantifiers.py:88-89  if paired: parameters = ['--paired-end'] + parameters
paired_end(paired) == IF paired THEN <<"--paired-end">> ELSE <<>>

\* toil_rnaseq.py:137  the RSEM job is created with paired=config.paired
rsem_paired(s) == cfg[s].paired

\* C27: for every sample whose STAR and RSEM jobs have run, RSEM was run with
\* --paired-end exactly if STAR (and with it Kallisto and Hera, which are
\* created with the same read ids) was given a read-2 file.
ToolsAgreeOnPairing ==
    \A s \in DOMAIN status :
        (status[s]["star"] = "ok" /\ status[s]["rsem"] = "ok") =>
            (paired_end(rsem_paired(s)) /= <<>>
                <=> Len(readFilesIn(Arg(InputsRv(s), 1), Arg(InputsRv(s), 2))) = 2)

(***************************************************************************)
(* The cores the jobs of a sample are created with                         *)
(***************************************************************************)
MaxCap == 40

\* Every tool configured, with and without BamQC, under every --maxCores up to
\* MaxCap and under none
CoresConfigSet ==
    {[c EXCEPT !.maxCores = m] :
        c \in {x \in ConfigSet : /\ WantsStar(x) /\ WantsKallisto(x) /\ WantsHera(x)
                                 /\ x.fastqc /\ ~x.cutadapt /\ ~x.save_bam /\ ~x.wiggle},
        m \in (1..MaxCap) \cup {sys_maxint}}

InitCores ==
    /\ pc = "started"
    /\ mainErr = "none"
    /\ config \in CoresConfigSet
    /\ samples = <<CHOOSE d \in RepresentativeSamples : d.file_type = "bam">>
    /\ mapStack = << <<1>> >>
    /\ lastNode = NoNode
    /\ leaves = <<>>
    /\ TaskInit(1)
    /\ NamesIdle
    /\ SideIdle
    /\ tarIn = <<>>
    /\ tarOut = <<>>

NextCores ==
    \/ map_job
    \/ \E s \in DOMAIN status : workflow(s)

SpecCores == InitCores /\ [][NextCores]_vars

\* C28: the cores the RSEM job of a sample is created with are those it would
\* be created with under the same configuration with bamqc the other way.
RsemCoresIgnoreBamqc ==
    \A s \in DOMAIN status :
        status[s]["rsem"] /= "absent" =>
            hint[s]["rsem"].cores = cores([config EXCEPT !.bamqc = ~config.bamqc], "rsem")

\* C29: once workflow() has set config.cores and created the jobs of a sample,
\* no job of the sample was created with more cores than config.cores.
NoJobAboveConfigCores ==
    \A s \in DOMAIN status :
        cfg[s] /= NoCfg =>
            \A t \in Tasks :
                status[s][t] /= "absent" => hint[s][t].cores <= cfg[s].cores

(***************************************************************************)
(* The docker wrapper: generate_manifest                                   *)
(***************************************************************************)
MaxGiven == 2

MaxBasenames == 3

\* s.split(sep)
RECURSIVE split(_, _)
split(s, sep) ==
    LET i == find(s, <<sep>>)
    IN IF i = 0 THEN <<s>>
       ELSE <<SubSeq(s, 1, i - 1)>> \o split(SubSeq(s, i + 1, Len(s)), sep)

\* os.path.basename(path)
path_basename(path) == LET parts == split(path, "/") IN parts[Len(parts)]

\* sep.join(parts)
RECURSIVE join_with(_, _)
join_with(sep, parts) ==
    IF parts = <<>> THEN <<>>
    ELSE IF Len(parts) = 1 THEN parts[1]
    ELSE parts[1] \o <<sep>> \o join_with(sep, Tail(parts))

\* zip(a, b): as many pairs as the shorter of the two has items
zip(a, b) == [i \in 1..Min(Len(a), Len(b)) |-> <<a[i], b[i]>>]

\* wrapper.py:172-175
fileURL(sample) ==
    IF startswith(sample, <<"/">>) \/ startswith(sample, <<".">>)
       THEN <<"f", "i", "l", "e", ":", "/", "/">> \o sample
       ELSE sample

\* wrapper.py:178-185
getSampleName(sample, output_basename) ==
    IF Truthy(output_basename) THEN output_basename
    ELSE LET name == split(path_basename(sample), ".")[1]
         IN IF endswith(name, <<"R", "1">>) \/ endswith(name, <<"R", "2">>)
               THEN SubSeq(name, 1, Len(name) - 2)
               ELSE name

\* wrapper.py:188-213: the fastqs of one --sample-paired argument in sorted
\* order, each put with read 1 or read 2 by the match in its base name; the
\* first without a match ends the program, unequal lists raise UserError;
\* else the URLs, read 1 and read 2 in turn, joined by commas
formatPairs(sample_pairs) ==
    LET so == sorted(split(sample_pairs, ","))
        group(n) == search(path_basename(n))
        isR1(n) == in("1", group(n))
        isR2(n) == ~in("1", group(n)) /\ in("2", group(n))
        r1 == SelectSeq(so, isR1)
        r2 == SelectSeq(so, isR2)
        both == zip(r1, r2)
    IN IF \E i \in 1..Len(so) : group(so[i]) = <<>> THEN [err |-> "exit", val |-> <<>>]
       ELSE IF Len(r1) /= Len(r2) THEN [err |-> "UserError", val |-> <<>>]
       ELSE [err |-> "none",
             val |-> join_with(",", [i \in 1..(2 * Len(both)) |->
                                       fileURL(both[(i + 1) \div 2][2 - (i % 2)])])]

\* map(f, l)
map_fileURL(l) == [i \in 1..Len(l) |-> fileURL(l[i])]

map_formatPairs(l) == [i \in 1..Len(l) |-> formatPairs(l[i]).val]

\* wrapper.py:162-169: what is written for one of the three lists: nothing for
\* an empty list, else one line of four fields for each pair zip gives, and
\* the newline that ends them (an empty line when zip gave nothing)
manifest_lines(list, sample_tars, sample_singles, output_basenames) ==
    IF list = <<>> THEN <<>>
    ELSE LET type == IF list /= sample_tars THEN "fq" ELSE "tar"
             pairing == IF list /= sample_singles THEN "paired" ELSE "single"
             zipped == zip(list, output_basenames)
         IN IF zipped = <<>> THEN << <<>> >>
            ELSE [i \in 1..Len(zipped) |->
                    <<type, pairing, getSampleName(zipped[i][1], zipped[i][2]), zipped[i][1]>>]

TarPaths == {<<"/", "a", ".", "t", "a", "r">>, <<"/", "s", ".", "t", "a", "r">>}

SinglePaths == {<<"/", "f", ".", "f", "q">>, <<"/", "q", ".", "f", "q">>}

\* --sample-paired arguments: a pair named by the convention (read 2 given
\* first), one with a file the pattern does not match, one with two reads 1
PairedArgs ==
    {<<"/", "s", "_", "R", "2", ".", "f", "q", ",", "/", "s", "_", "R", "1", ".", "f", "q">>,
     <<"/", "s", "_", "R", "1", ".", "f", "q", ",", "/", "s", "2", ".", "f", "q">>,
     <<"/", "s", "_", "R", "1", ".", "f", "q", ",", "/", "t", "_", "R", "1", ".", "f", "q">>}

BasenamePool == <<<<"a", "a">>, <<"f", "f">>, <<"q", "q">>, <<"z", "z">>>>

\* The lists of up to MaxGiven different items of a set
ListsOf(S) ==
    {l \in UNION {[1..n -> S] : n \in 0..MaxGiven} :
        \A i, j \in DOMAIN l : i /= j => l[i] /= l[j]}

\* The arguments of the wrapper that reach generate_manifest (--auto-scale off,
\* which asks for nothing about --output-basenames)
WrapperArgs ==
    [sample_tar : ListsOf(TarPaths), sample_single : ListsOf(SinglePaths),
     sample_paired : {l \in ListsOf(PairedArgs) : Len(l) <= 1},
     output_basenames : {SubSeq(BasenamePool, 1, n) : n \in 0..MaxBasenames}]

InitWrapper ==
    /\ pc = "started"
    /\ mainErr = "none"
    /\ config \in {c \in ConfigSet : c \in AcquisitionConfigs /\ ~c.cutadapt /\ ~c.fastqc}
    /\ samples = <<>>
    /\ mapStack = <<>>
    /\ lastNode = NoNode
    /\ leaves = <<>>
    /\ TaskInit(0)
    /\ NamesIdle
    /\ s3am = NoCall
    /\ \E a \in WrapperArgs : wrapper = [NoWrapper EXCEPT !.args = a]
    /\ tarIn = <<>>
    /\ tarOut = <<>>

\* wrapper.py:145-169
generate_manifest ==
    /\ wrapper.outcome = "idle"
    /\ LET a == wrapper.args
           errs == {formatPairs(a.sample_paired[i]).err : i \in DOMAIN a.sample_paired}
           sample_tars == map_fileURL(a.sample_tar)
           sample_pairs == map_formatPairs(a.sample_paired)
           sample_singles == map_fileURL(a.sample_single)
           written(list) ==
               manifest_lines(list, sample_tars, sample_singles, a.output_basenames)
       IN wrapper' =
             IF errs \ {"none"} /= {}
                THEN [wrapper EXCEPT !.outcome = CHOOSE e \in errs : e /= "none"]
                ELSE [wrapper EXCEPT
                        !.manifest = written(sample_pairs) \o written(sample_tars)
                                         \o written(sample_singles),
                        !.outcome = "written"]
    /\ UNCHANGED <<pc, mainErr, config, samples, mapVars, taskVars, tarVars, namesVars, s3am>>

NextWrapper == generate_manifest

SpecWrapper == InitWrapper /\ [][NextWrapper]_vars

\* The samples given to the wrapper, as the manifest is to name them
GivenSamples ==
    LET a == wrapper.args
    IN map_formatPairs(a.sample_paired) \o map_fileURL(a.sample_tar)
          \o map_fileURL(a.sample_single)

\* C30: the manifest generate_manifest has written holds exactly one line for
\* every sample given with --sample-tar, --sample-paired and --sample-single,
\* however many --output-basenames were given.
ManifestLinePerSample ==
    wrapper.outcome = "written" =>
        LET lines == SelectSeq(wrapper.manifest, LAMBDA l : l /= <<>>)
        IN /\ Len(lines) = Len(GivenSamples)
           /\ \A i \in DOMAIN GivenSamples :
                 Cardinality({j \in DOMAIN lines : lines[j][4] = GivenSamples[i]}) = 1

====
